---- MODULE Spec2Model ----
(***************************************************************************)
(* A model of the in-memory metric store of kube-metrics-adapter           *)
(* (pkg/provider/metric_store.go): the nested maps of the MetricStore,     *)
(* its RWMutex, and the operations Insert, GetMetricsBySelector,           *)
(* GetMetricsByName, ListAllMetrics, GetExternalMetric,                    *)
(* ListAllExternalMetrics and RemoveExpired.                               *)
(*                                                                         *)
(* Go maps are modelled as functions with a finite domain.  Strings that   *)
(* are only compared for equality (metric names, kinds, namespaces,        *)
(* object names) are TLA+ strings; label keys and values, which            *)
(* hashLabelMap formats, sorts and joins, are sequences of byte values     *)
(* (97 = 'a', 98 = 'b', 49 = '1', 50 = '2', 61 = '=', 44 = ',').           *)
(*                                                                         *)
(* Time is counted in minutes.  A runtime panic ("assignment to entry in   *)
(* nil map") is recorded in the variable panicked; the writes made before  *)
(* the panic stay in the store and the deferred Unlock has released the    *)
(* lock, so the other goroutines can still operate on the store; the       *)
(* goroutine that panicked never returns from Insert, and when no caller   *)
(* recovers the panic the process ends (action Exit of the goroutines'     *)
(* specification SpecConc).                                                *)
(***************************************************************************)
EXTENDS Integers, Sequences, FiniteSets, TLC

VARIABLES
    customMetricsStore,   \* metricName -> groupResource -> namespace -> name -> stored metric
    externalMetricsStore, \* metricName -> labelsKey -> stored metric
    now,                  \* the clock read by time.Now()
    panicked,             \* TRUE once an operation has panicked
    op,                   \* the last completed operation and its arguments
    ret,                  \* what the last completed operation returned
    pc,                   \* per goroutine: where it is in its store operation
    call,                 \* per goroutine: the operation it runs and its arguments
    readers,              \* the goroutines holding the RWMutex for reading
    writer,               \* the goroutines holding the RWMutex's writer mutex
    waiting,              \* the goroutines blocked in Lock() on the writer mutex
    snap,                 \* the store as the last completed write left it
    order,                \* per stored identity: the Insert that acquired the exclusive lock last
    calls                 \* the number of operations the goroutines have called

storeVars == <<customMetricsStore, externalMetricsStore>>
seqVars == <<now, panicked, op, ret>>
concVars == <<pc, call, readers, writer, waiting, snap, order, calls>>
vars == <<customMetricsStore, externalMetricsStore, now, panicked, op, ret,
          pc, call, readers, writer, waiting, snap, order, calls>>

----------------------------------------------------------------------------
(* Bounds and input sets *)

MaxEntries == 2     \* entries (custom and external) the Inserts may create; overwrites are free
MaxTime == 30       \* the clock stops here
MaxCalls == 3       \* operations the goroutines call while they run concurrently

TTL == 15           \* minutes; 15 * time.Minute

KeyA == <<97>>
KeyB == <<98>>
Val1 == <<49>>
Val2 == <<50>>

EmptyMap == <<>>

MetricNames == {"requests-per-second", "queue-length"}
Quantities == {42, 7}

\* the described objects metrics are collected for, and the labels of each:
\* two pods in one namespace, an ingress, and two objects of kinds without a
\* group resource mapping, one of them cluster scoped (its namespace is empty)
Objects ==
    {[Kind |-> "Pod", Namespace |-> "ns1", Name |-> "a"],
     [Kind |-> "Pod", Namespace |-> "ns1", Name |-> "b"],
     [Kind |-> "Ingress", Namespace |-> "ns1", Name |-> "a"],
     [Kind |-> "Deployment", Namespace |-> "ns1", Name |-> "a"],
     [Kind |-> "Node", Namespace |-> "", Name |-> "a"]}

LabelsOf(o) ==
    CASE o.Kind = "Pod" /\ o.Name = "a" -> KeyA :> Val1
      [] o.Kind = "Pod" /\ o.Name = "b" -> KeyA :> Val2
      [] o.Kind = "Deployment" -> KeyA :> Val1
      [] o.Kind = "Node" -> KeyA :> Val1
      [] OTHER -> EmptyMap

Kinds == {o.Kind : o \in Objects}
Namespaces == {o.Namespace : o \in Objects}
ObjectNames == {o.Name : o \in Objects}

\* the custom metrics collected: requests-per-second of every object, and
\* queue-length of one pod
CustomSeries ==
    ({"requests-per-second"} \X Objects)
        \cup {<<"queue-length", [Kind |-> "Pod", Namespace |-> "ns1", Name |-> "a"]>>}

\* the external metrics collected: queue-length under two label maps, and
\* zmon-check without labels
ExternalNames == {"queue-length", "zmon-check"}
ExternalSeries ==
    {<<"queue-length", KeyA :> Val1>>,
     <<"queue-length", (KeyA :> Val1) @@ (KeyB :> Val2)>>,
     <<"zmon-check", EmptyMap>>}
ExternalLabels == {e[2] : e \in ExternalSeries}

\* selectors: conjunctions of equality requirements key = value
Selectors == {EmptyMap, KeyA :> Val1}

Nil == [isNil |-> TRUE]

----------------------------------------------------------------------------
(* Go map helpers *)

Put(m, k, v) == [x \in (DOMAIN m) \cup {k} |-> IF x = k THEN v ELSE m[x]]

Restrict(m, S) == [x \in S |-> m[x]]

Has(m, k) == k \in DOMAIN m

----------------------------------------------------------------------------
(* The stored values *)

\* custom_metrics.MetricValue: the described object, the metric name, the quantity
CustomValue(kind, namespace, name, metricName, value) ==
    [DescribedObject |-> [Kind |-> kind, Namespace |-> namespace, Name |-> name],
     MetricName |-> metricName, Value |-> value]

\* external_metrics.ExternalMetricValue
ExternalValue(metricName, labels, value) ==
    [MetricName |-> metricName, MetricLabels |-> labels, Value |-> value]

\* collector.CollectedMetric of type Object or Pods: Custom and Labels
CustomInputs ==
    {[Custom |-> CustomValue(c[2].Kind, c[2].Namespace, c[2].Name, c[1], v),
      Labels |-> LabelsOf(c[2])] : c \in CustomSeries, v \in Quantities}

\* collector.CollectedMetric of type External
ExternalInputs ==
    {ExternalValue(e[1], e[2], v) : e \in ExternalSeries, v \in Quantities}

\* (mutant: an unmapped kind gets a group resource of its own)
GroupResourceOfKind(kind) ==
    CASE kind = "Pod" -> [Group |-> "", Resource |-> "pods"]
      [] kind = "Ingress" -> [Group |-> "extensions", Resource |-> "ingresses"]
      [] OTHER -> [Group |-> "", Resource |-> kind]

\* the switch over value.DescribedObject.Kind; the default is the zero GroupResource
GroupResourceOf(kind) ==
    CASE kind = "Pod" -> [Group |-> "", Resource |-> "pods"]
      [] kind = "Ingress" -> [Group |-> "extensions", Resource |-> "ingresses"]
      [] OTHER -> [Group |-> "", Resource |-> ""]

GroupResources == {GroupResourceOf(k) : k \in Kinds}

\* (mutant: an entry that expires exactly at t counts as expired)
BeforeOrAt(t, u) == t <= u

\* time.Time.Before
Before(t, u) == t < u

\* (mutant: the TTL is not added)
ExpiresAtNow(t) == t

\* time.Now().UTC().Add(15 * time.Minute)
ExpiresAt(t) == t + TTL

----------------------------------------------------------------------------
(* insertCustomMetric: the store after the call and whether it panicked.   *)
(* branch names the path taken through the function.                       *)

insertCustomMetric(store, value, labels, t) ==
    LET groupResource == GroupResourceOf(value.DescribedObject.Kind)
        ns == value.DescribedObject.Namespace
        name == value.DescribedObject.Name
        metric == [Value |-> value, Labels |-> labels, TTL |-> ExpiresAt(t)]
    IN  IF ~Has(store, value.MetricName)
        THEN \* a new metric name: the whole branch is created, early return
             [store |-> Put(store, value.MetricName,
                            groupResource :> (ns :> (name :> metric))),
              panic |-> FALSE, branch |-> "newMetric"]
        ELSE LET metrics == store[value.MetricName]
             IN  IF ~Has(metrics, groupResource)
                 THEN \* metrics[groupResource] is set, but group is still the nil
                      \* map read before: group[namespace] = ... panics
                      [store |-> Put(store, value.MetricName,
                                     Put(metrics, groupResource, ns :> (name :> metric))),
                       panic |-> TRUE, branch |-> "newGroup"]
                 ELSE LET group == metrics[groupResource]
                      IN  IF ~Has(group, ns)
                          THEN \* group[namespace] is set, but namespace is still the
                               \* nil map read before: namespace[name] = metric panics
                               [store |-> Put(store, value.MetricName,
                                              Put(metrics, groupResource,
                                                  Put(group, ns, name :> metric))),
                                panic |-> TRUE, branch |-> "newNamespace"]
                          ELSE [store |-> Put(store, value.MetricName,
                                              Put(metrics, groupResource,
                                                  Put(group, ns,
                                                      Put(group[ns], name, metric)))),
                                panic |-> FALSE,
                                branch |-> IF Has(group[ns], name)
                                           THEN "overwrite" ELSE "newName"]

----------------------------------------------------------------------------
(* hashLabelMap *)

\* fmt.Sprintf("%s=%s", k, v)
FormatPair(k, v) == k \o <<61>> \o v

\* byte-wise string comparison a < b
RECURSIVE StrLess(_, _)
StrLess(a, b) ==
    IF b = <<>> THEN FALSE
    ELSE IF a = <<>> THEN TRUE
    ELSE IF Head(a) # Head(b) THEN Head(a) < Head(b)
    ELSE StrLess(Tail(a), Tail(b))

\* insert x into an ascending sequence
RECURSIVE InsertSorted(_, _)
InsertSorted(x, s) ==
    IF s = <<>> THEN <<x>>
    ELSE IF StrLess(Head(s), x) THEN <<Head(s)>> \o InsertSorted(x, Tail(s))
    ELSE <<x>> \o s

\* sort.Strings
RECURSIVE SortStrings(_)
SortStrings(s) ==
    IF s = <<>> THEN <<>> ELSE InsertSorted(Head(s), SortStrings(Tail(s)))

\* strings.Join(s, ",")
RECURSIVE Join(_)
Join(s) ==
    IF s = <<>> THEN <<>>
    ELSE IF Len(s) = 1 THEN s[1]
    ELSE s[1] \o <<44>> \o Join(Tail(s))

\* the orders in which range may visit the keys of a map
RangeOrders(m) ==
    {o \in [1..Cardinality(DOMAIN m) -> DOMAIN m] :
        \A i, j \in DOMAIN o : i # j => o[i] # o[j]}

\* (mutant: the pairs are joined in the order they were visited, unsorted)
hashLabelMapUnsorted(labels, keys) ==
    Join([i \in DOMAIN keys |-> FormatPair(keys[i], labels[keys[i]])])

\* hashLabelMap with the keys visited in the order keys
hashLabelMap(labels, keys) ==
    LET strLabels == [i \in DOMAIN keys |-> FormatPair(keys[i], labels[keys[i]])]
    IN  Join(SortStrings(strLabels))

----------------------------------------------------------------------------
(* insertExternalMetric, with the keys of the label map visited in order keys *)

\* (mutant: a new metric name replaces the whole store)
insertExternalMetricReset(store, metric, keys, t) ==
    LET storedMetric == [Value |-> metric, TTL |-> ExpiresAt(t)]
        labelsKey == hashLabelMap(metric.MetricLabels, keys)
    IN  IF Has(store, metric.MetricName)
        THEN Put(store, metric.MetricName, Put(store[metric.MetricName], labelsKey, storedMetric))
        ELSE metric.MetricName :> (labelsKey :> storedMetric)

insertExternalMetric(store, metric, keys, t) ==
    LET storedMetric == [Value |-> metric, TTL |-> ExpiresAt(t)]
        labelsKey == hashLabelMap(metric.MetricLabels, keys)
    IN  IF Has(store, metric.MetricName)
        THEN Put(store, metric.MetricName, Put(store[metric.MetricName], labelsKey, storedMetric))
        ELSE Put(store, metric.MetricName, labelsKey :> storedMetric)

----------------------------------------------------------------------------
(* Reads *)

\* selector.Matches(labels.Set(l)) for a selector of equality requirements
Matches(selector, l) ==
    \A k \in DOMAIN selector : Has(l, k) /\ l[k] = selector[k]

\* the values of one namespace map that match the selector
MatchedIn(metricMap, selector) ==
    {metricMap[n].Value : n \in {x \in DOMAIN metricMap : Matches(selector, metricMap[x].Labels)}}

\* (mutant: the namespace argument is ignored)
GetMetricsBySelectorAllNamespaces(store, metricName, groupResource, namespace, selector) ==
    IF ~Has(store, metricName) THEN Nil
    ELSE IF ~Has(store[metricName], groupResource) THEN Nil
    ELSE LET group == store[metricName][groupResource]
         IN  [isNil |-> FALSE,
              Items |-> UNION {MatchedIn(group[ns], selector) : ns \in DOMAIN group}]

\* GetMetricsBySelector: nil, or the list of matched values (in no fixed order:
\* entries of one group have different described objects, so a set loses nothing)
GetMetricsBySelector(store, metricName, groupResource, namespace, selector) ==
    IF ~Has(store, metricName) THEN Nil
    ELSE IF ~Has(store[metricName], groupResource) THEN Nil
    ELSE LET group == store[metricName][groupResource]
         IN  IF namespace = ""
             THEN [isNil |-> FALSE,
                   Items |-> UNION {MatchedIn(group[ns], selector) : ns \in DOMAIN group}]
             ELSE IF Has(group, namespace)
             THEN [isNil |-> FALSE, Items |-> MatchedIn(group[namespace], selector)]
             ELSE [isNil |-> FALSE, Items |-> {}]

\* (mutant: every namespace is searched, whatever the namespace argument)
GetMetricsByNameAllNamespaces(store, metricName, groupResource, namespace, name) ==
    IF ~Has(store, metricName) THEN {Nil}
    ELSE IF ~Has(store[metricName], groupResource) THEN {Nil}
    ELSE LET group == store[metricName][groupResource]
             found == {ns \in DOMAIN group : Has(group[ns], name)}
         IN  IF found = {} THEN {Nil}
             ELSE {[isNil |-> FALSE, Value |-> group[ns][name].Value] : ns \in found}

\* (mutant: an empty namespace is looked up as a namespace of that name)
GetMetricsByNameExactNamespace(store, metricName, groupResource, namespace, name) ==
    IF ~Has(store, metricName) THEN {Nil}
    ELSE IF ~Has(store[metricName], groupResource) THEN {Nil}
    ELSE LET group == store[metricName][groupResource]
         IN  IF Has(group, namespace) /\ Has(group[namespace], name)
             THEN {[isNil |-> FALSE, Value |-> group[namespace][name].Value]}
             ELSE {Nil}

\* GetMetricsByName: the results the call can return (nil is Nil).  With an empty
\* namespace the namespaces are ranged over in an order the runtime picks, and the
\* first one holding the name is returned: any of them can be the first.
GetMetricsByName(store, metricName, groupResource, namespace, name) ==
    IF ~Has(store, metricName) THEN {Nil}
    ELSE IF ~Has(store[metricName], groupResource) THEN {Nil}
    ELSE LET group == store[metricName][groupResource]
         IN  IF namespace = ""
             THEN LET found == {ns \in DOMAIN group : Has(group[ns], name)}
                  IN  IF found = {} THEN {Nil}
                      ELSE {[isNil |-> FALSE, Value |-> group[ns][name].Value] : ns \in found}
             ELSE IF Has(group, namespace) /\ Has(group[namespace], name)
             THEN {[isNil |-> FALSE, Value |-> group[namespace][name].Value]}
             ELSE {Nil}

\* the (metric name, group resource, namespace) containers the loops visit
Containers(store) ==
    UNION {UNION {{<<m, gr, ns>> : ns \in DOMAIN store[m][gr]} :
                  gr \in DOMAIN store[m]} : m \in DOMAIN store}

\* (mutant: every container is reported as namespaced)
ListAllMetricsNamespaced(store) ==
    [c \in Containers(store) |->
        [GroupResource |-> c[2], Namespaced |-> TRUE, Metric |-> c[1]]]

\* ListAllMetrics: the CustomMetricInfo appended for each container visited
ListAllMetrics(store) ==
    [c \in Containers(store) |->
        [GroupResource |-> c[2], Namespaced |-> (c[3] # ""), Metric |-> c[1]]]

\* (mutant: an unknown metric name is reported as an error)
GetExternalMetricNotFound(store, namespace, metricName, selector) ==
    IF Has(store, metricName)
    THEN [Items |-> {store[metricName][k].Value :
                        k \in {x \in DOMAIN store[metricName] :
                                 Matches(selector, store[metricName][x].Value.MetricLabels)}},
          err |-> "nil"]
    ELSE [Items |-> {}, err |-> "not found"]

\* (mutant: only a query without a namespace sees the external metrics)
GetExternalMetricClusterOnly(store, namespace, metricName, selector) ==
    [Items |-> IF Has(store, metricName) /\ namespace = ""
               THEN {store[metricName][k].Value :
                        k \in {x \in DOMAIN store[metricName] :
                                 Matches(selector, store[metricName][x].Value.MetricLabels)}}
               ELSE {},
     err |-> "nil"]

\* GetExternalMetric: the matched values and the error (always nil)
GetExternalMetric(store, namespace, metricName, selector) ==
    [Items |-> IF Has(store, metricName)
               THEN {store[metricName][k].Value :
                        k \in {x \in DOMAIN store[metricName] :
                                 Matches(selector, store[metricName][x].Value.MetricLabels)}}
               ELSE {},
     err |-> "nil"]

\* (mutant: an entry whose expiresAt has passed is not listed)
ListAllExternalMetricsUnexpired(store) ==
    UNION {{[Metric |-> m, Labels |-> store[m][k].Value.MetricLabels] :
              k \in {x \in DOMAIN store[m] : ~(store[m][x].TTL < now)}} : m \in DOMAIN store}

\* ListAllExternalMetrics
ListAllExternalMetrics(store) ==
    UNION {{[Metric |-> m, Labels |-> store[m][k].Value.MetricLabels] :
              k \in DOMAIN store[m]} : m \in DOMAIN store}

----------------------------------------------------------------------------
(* RemoveExpired, with the clock reading t *)

\* the inner loop: delete(resources, resource) for every expired metric
SweepResources(resources, t) ==
    Restrict(resources, {r \in DOMAIN resources : ~Before(resources[r].TTL, t)})

\* (mutant: a namespace left without resources is not deleted)
SweepNamespacesKeepEmpty(namespaces, t) ==
    [ns \in DOMAIN namespaces |-> SweepResources(namespaces[ns], t)]

\* delete(namespaces, namespace) when len(resources) == 0
SweepNamespaces(namespaces, t) ==
    LET swept == [ns \in DOMAIN namespaces |-> SweepResources(namespaces[ns], t)]
    IN  Restrict(swept, {ns \in DOMAIN swept : DOMAIN swept[ns] # {}})

\* (mutant: a group resource left without namespaces is not deleted)
SweepGroupsKeepEmpty(groups, t) ==
    [g \in DOMAIN groups |-> SweepNamespaces(groups[g], t)]

\* delete(groups, group) when len(namespaces) == 0
SweepGroups(groups, t) ==
    LET swept == [g \in DOMAIN groups |-> SweepNamespaces(groups[g], t)]
    IN  Restrict(swept, {g \in DOMAIN swept : DOMAIN swept[g] # {}})

\* the cleanup of the custom metrics
RemoveExpiredCustom(store, t) ==
    LET swept == [m \in DOMAIN store |-> SweepGroups(store[m], t)]
    IN  Restrict(swept, {m \in DOMAIN swept : DOMAIN swept[m] # {}})

\* the cleanup of the external metrics
RemoveExpiredExternal(store, t) ==
    LET swept == [m \in DOMAIN store |-> SweepResources(store[m], t)]
    IN  Restrict(swept, {m \in DOMAIN swept : DOMAIN swept[m] # {}})

----------------------------------------------------------------------------
(* What the store holds *)

\* the paths (metricName, groupResource, namespace, name) of the custom entries
CustomPaths(store) ==
    UNION {UNION {UNION {{<<m, gr, ns, n>> : n \in DOMAIN store[m][gr][ns]} :
                         ns \in DOMAIN store[m][gr]} :
                  gr \in DOMAIN store[m]} : m \in DOMAIN store}

CustomAt(store, p) == store[p[1]][p[2]][p[3]][p[4]]

\* whether the custom store holds an entry at the path p
CustomHas(store, p) ==
    /\ Has(store, p[1])
    /\ Has(store[p[1]], p[2])
    /\ Has(store[p[1]][p[2]], p[3])
    /\ Has(store[p[1]][p[2]][p[3]], p[4])

\* the paths (metricName, labelsKey) of the external entries
ExternalPaths(store) ==
    UNION {{<<m, k>> : k \in DOMAIN store[m]} : m \in DOMAIN store}

ExternalAt(store, p) == store[p[1]][p[2]]

\* the path an Insert of a custom metric writes
PathOf(value) ==
    <<value.MetricName, GroupResourceOf(value.DescribedObject.Kind),
      value.DescribedObject.Namespace, value.DescribedObject.Name>>

----------------------------------------------------------------------------
(* The store used by one caller at a time: every operation is one step.    *)
(* (The RWMutex makes the operations atomic; the goroutines and the lock   *)
(* are the subject of the second specification below.)                     *)

None == [isNone |-> TRUE]

ReadNames == {"GetMetricsBySelector", "GetMetricsByName", "ListAllMetrics",
              "GetExternalMetric", "ListAllExternalMetrics"}

\* the number of entries the store holds
Entries ==
    Cardinality(CustomPaths(customMetricsStore)) + Cardinality(ExternalPaths(externalMetricsStore))

\* the goroutines that call the store: the collection tasks and the sweep
\* (Insert, RemoveExpired), and the request handlers (the reads)
Writers == {"w1", "w2"}
Readers == {"r1", "r2"}
Procs == Writers \cup Readers

\* no goroutine is inside the store, the lock is free
ConcInit ==
    /\ pc = [g \in Procs |-> "idle"]
    /\ call = [g \in Procs |-> None]
    /\ readers = {}
    /\ writer = {}
    /\ waiting = {}
    /\ snap = [custom |-> EmptyMap, external |-> EmptyMap]
    /\ order = [custom |-> EmptyMap, external |-> EmptyMap]
    /\ calls = 0

\* NewMetricStore
Init ==
    /\ customMetricsStore = EmptyMap
    /\ externalMetricsStore = EmptyMap
    /\ now = 0
    /\ panicked = FALSE
    /\ op = [name |-> "NewMetricStore"]
    /\ ret = None
    /\ ConcInit

\* time passes, d minutes
Tick(d) ==
    /\ now + d <= MaxTime
    /\ now' = now + d
    /\ op' = [name |-> "Tick"]
    /\ ret' = None
    /\ UNCHANGED <<storeVars, panicked, concVars>>

\* Insert of a CollectedMetric of type Object or Pods
InsertCustom(in) ==
    LET r == insertCustomMetric(customMetricsStore, in.Custom, in.Labels, now)
    IN  /\ \/ CustomHas(customMetricsStore, PathOf(in.Custom))
           \/ Entries < MaxEntries
        /\ customMetricsStore' = r.store
        /\ panicked' = (panicked \/ r.panic)
        /\ op' = [name |-> "InsertCustom", value |-> in.Custom, labels |-> in.Labels,
                  branch |-> r.branch, panic |-> r.panic]
        /\ ret' = None
        /\ UNCHANGED <<externalMetricsStore, now, concVars>>

\* Insert of a CollectedMetric of type External
InsertExternal(metric, keys) ==
    LET labelsKey == hashLabelMap(metric.MetricLabels, keys)
    IN  /\ \/ <<metric.MetricName, labelsKey>> \in ExternalPaths(externalMetricsStore)
           \/ Entries < MaxEntries
        /\ externalMetricsStore' = insertExternalMetric(externalMetricsStore, metric, keys, now)
        /\ op' = [name |-> "InsertExternal", value |-> metric, keys |-> keys,
                  labelsKey |-> labelsKey,
                  overwrite |-> (<<metric.MetricName, labelsKey>>
                                    \in ExternalPaths(externalMetricsStore))]
        /\ ret' = None
        /\ UNCHANGED <<customMetricsStore, now, panicked, concVars>>

\* Insert: the switch over value.Type
Insert ==
    \/ \E in \in CustomInputs : InsertCustom(in)
    \/ \E metric \in ExternalInputs :
          \E keys \in RangeOrders(metric.MetricLabels) : InsertExternal(metric, keys)

RemoveExpired ==
    /\ customMetricsStore' = RemoveExpiredCustom(customMetricsStore, now)
    /\ externalMetricsStore' = RemoveExpiredExternal(externalMetricsStore, now)
    /\ op' = [name |-> "RemoveExpired",
              removed |-> (CustomPaths(customMetricsStore)
                              \ CustomPaths(customMetricsStore'))
                          \cup (ExternalPaths(externalMetricsStore)
                                  \ ExternalPaths(externalMetricsStore'))]
    /\ ret' = None
    /\ UNCHANGED <<now, panicked, concVars>>

ReadBySelector(metricName, groupResource, namespace, selector) ==
    /\ op' = [name |-> "GetMetricsBySelector", metricName |-> metricName,
              groupResource |-> groupResource, namespace |-> namespace,
              selector |-> selector]
    /\ ret' = GetMetricsBySelector(customMetricsStore, metricName, groupResource,
                                   namespace, selector)
    /\ UNCHANGED <<storeVars, now, panicked, concVars>>

ReadByName(metricName, groupResource, namespace, name) ==
    /\ op' = [name |-> "GetMetricsByName", metricName |-> metricName,
              groupResource |-> groupResource, namespace |-> namespace,
              objectName |-> name]
    /\ ret' \in GetMetricsByName(customMetricsStore, metricName, groupResource,
                                 namespace, name)
    /\ UNCHANGED <<storeVars, now, panicked, concVars>>

ReadListAllMetrics ==
    /\ op' = [name |-> "ListAllMetrics"]
    /\ ret' = ListAllMetrics(customMetricsStore)
    /\ UNCHANGED <<storeVars, now, panicked, concVars>>

ReadExternal(namespace, metricName, selector) ==
    /\ op' = [name |-> "GetExternalMetric", namespace |-> namespace,
              metricName |-> metricName, selector |-> selector]
    /\ ret' = GetExternalMetric(externalMetricsStore, namespace, metricName, selector)
    /\ UNCHANGED <<storeVars, now, panicked, concVars>>

ReadListAllExternalMetrics ==
    /\ op' = [name |-> "ListAllExternalMetrics"]
    /\ ret' = ListAllExternalMetrics(externalMetricsStore)
    /\ UNCHANGED <<storeVars, now, panicked, concVars>>

\* the caller takes the result of a read
Return ==
    /\ op.name \in ReadNames
    /\ op' = [name |-> "Return"]
    /\ ret' = None
    /\ UNCHANGED <<storeVars, now, panicked, concVars>>

Read ==
    \/ \E m \in MetricNames, gr \in GroupResources, ns \in Namespaces,
          sel \in Selectors : ReadBySelector(m, gr, ns, sel)
    \/ \E m \in MetricNames, gr \in GroupResources, ns \in Namespaces,
          n \in ObjectNames : ReadByName(m, gr, ns, n)
    \/ ReadListAllMetrics
    \/ \E ns \in Namespaces, m \in ExternalNames, sel \in Selectors :
          ReadExternal(ns, m, sel)
    \/ ReadListAllExternalMetrics

Write ==
    \/ Tick(TTL)
    \/ Insert
    \/ RemoveExpired

Next == Write

Spec == Init /\ [][Next]_vars

\* the store with its readers: a read is taken by its caller before the next call
NextRead ==
    \/ /\ op.name \notin ReadNames
       /\ \/ Write
          \/ Read
    \/ Return

SpecRead == Init /\ [][NextRead]_vars

----------------------------------------------------------------------------
(* The store used by several goroutines.  sync.RWMutex: Lock() takes the   *)
(* writer mutex, which makes later RLock() calls block, and then waits for *)
(* the readers inside to leave; Unlock() admits the blocked readers and    *)
(* releases the writer mutex.  Every operation locks first and unlocks in  *)
(* a deferred call, which also runs when the operation panics.             *)

PodA == [Kind |-> "Pod", Namespace |-> "ns1", Name |-> "a"]

\* what the collection tasks insert
ConcCustomInputs ==
    {in \in CustomInputs :
        \/ in.Custom.MetricName = "requests-per-second" /\ in.Custom.DescribedObject = PodA
        \/ in.Custom.DescribedObject.Kind = "Ingress" /\ in.Custom.Value = 42}

ConcExternalInputs ==
    {m \in ExternalInputs : m.MetricName = "zmon-check" /\ m.Value = 42}

\* the calls of the writers: Insert (the switch over value.Type) and RemoveExpired,
\* with the metric names its loop has still to visit
WriterCalls ==
    {[name |-> "Insert", type |-> "custom", value |-> in.Custom, labels |-> in.Labels] :
        in \in ConcCustomInputs}
    \cup {[name |-> "Insert", type |-> "external", value |-> m, keys |-> k] :
            m \in ConcExternalInputs, k \in RangeOrders(EmptyMap)}
    \cup {[name |-> "RemoveExpired", todo |-> {}]}

\* the calls of the readers
ReaderCalls ==
    {[name |-> "GetMetricsBySelector", metricName |-> "requests-per-second",
      groupResource |-> GroupResourceOf("Pod"), namespace |-> "ns1",
      selector |-> EmptyMap, ret |-> None],
     [name |-> "ListAllMetrics", ret |-> None],
     [name |-> "ListAllExternalMetrics", ret |-> None]}

\* the results the read c can return against the stores cs and es
ReadResult(c, cs, es) ==
    CASE c.name = "GetMetricsBySelector" ->
            {GetMetricsBySelector(cs, c.metricName, c.groupResource, c.namespace, c.selector)}
      [] c.name = "GetMetricsByName" ->
            GetMetricsByName(cs, c.metricName, c.groupResource, c.namespace, c.objectName)
      [] c.name = "ListAllMetrics" -> {ListAllMetrics(cs)}
      [] c.name = "GetExternalMetric" ->
            {GetExternalMetric(es, c.namespace, c.metricName, c.selector)}
      [] c.name = "ListAllExternalMetrics" -> {ListAllExternalMetrics(es)}

\* the result a read call has computed
Result(r) == [isNone |-> FALSE, result |-> r]

\* the identity an Insert writes: the path of a custom metric, the metric name
\* and canonical label string of an external one
IdentityOf(c) ==
    IF c.type = "custom" THEN PathOf(c.value)
    ELSE <<c.value.MetricName, hashLabelMap(c.value.MetricLabels, c.keys)>>

\* g has called an operation that has not ended
InProgress(g) == pc[g] \notin {"idle", "dead"}

\* g is inside the critical section of a write, of a read
Writing(g) == pc[g] \in {"insert", "sweepCustom", "sweepExternal", "Unlock", "panic"}
Reading(g) == pc[g] \in {"read", "RUnlock"}

\* the Inserts at identity p of type t that are in progress, other than g's
InsertingAt(t, p, g) ==
    {h \in Writers \ {g} :
        /\ InProgress(h)
        /\ call[h].name = "Insert"
        /\ call[h].type = t
        /\ IdentityOf(call[h]) = p}

\* (mutant: RLock does not wait for a writer)
CanRLockAlways == TRUE

\* RLock proceeds unless a writer holds the writer mutex
CanRLock == writer = {}

\* (mutant: Lock does not wait for another writer)
CanLockAlways == TRUE

\* rw.w.Lock(): the writer mutex is free
CanLock == writer = {}

\* Lock returns when the readers inside have left
CanEnter == readers = {}

\* where RemoveExpired goes on: the loop over the custom metrics, the loop over
\* the external metrics, the deferred Unlock
SweepFrom(phase, cs, es) ==
    IF phase = "custom" /\ DOMAIN cs # {}
    THEN [pc |-> "sweepCustom", todo |-> DOMAIN cs]
    ELSE IF DOMAIN es # {}
    THEN [pc |-> "sweepExternal", todo |-> DOMAIN es]
    ELSE [pc |-> "Unlock", todo |-> {}]

\* a goroutine calls an operation of the store
Start(g, c) ==
    /\ pc[g] = "idle"
    /\ calls < MaxCalls
    /\ calls' = calls + 1
    /\ pc' = [pc EXCEPT ![g] = IF g \in Writers THEN "Lock" ELSE "RLock"]
    /\ call' = [call EXCEPT ![g] = c]
    /\ waiting' = IF g \in Writers THEN waiting \cup {g} ELSE waiting
    /\ UNCHANGED <<storeVars, seqVars, readers, writer, snap, order>>

\* s.Lock(), first half: the writer mutex is taken
Lock(g) ==
    /\ pc[g] = "Lock"
    /\ CanLock
    /\ writer' = writer \cup {g}
    /\ waiting' = waiting \ {g}
    /\ pc' = [pc EXCEPT ![g] = "Pending"]
    /\ UNCHANGED <<storeVars, seqVars, call, readers, snap, order, calls>>

\* s.Lock(), second half: the readers have left, the critical section begins
Enter(g) ==
    /\ pc[g] = "Pending"
    /\ CanEnter
    /\ IF call[g].name = "Insert"
       THEN /\ pc' = [pc EXCEPT ![g] = "insert"]
            /\ call' = call
            /\ order' =
                 LET t == call[g].type
                     p == IdentityOf(call[g])
                     last == [value |-> call[g].value, returned |-> FALSE,
                              raced |-> /\ Has(order[t], p)
                                        /\ g \in order[t][p].rivals
                                        /\ order[t][p].value # call[g].value,
                              rivals |-> InsertingAt(t, p, g)]
                 IN  [order EXCEPT ![t] = Put(order[t], p, last)]
       ELSE LET next == SweepFrom("custom", customMetricsStore, externalMetricsStore)
            IN  /\ pc' = [pc EXCEPT ![g] = next.pc]
                /\ call' = [call EXCEPT ![g].todo = next.todo]
                /\ order' = order
    /\ UNCHANGED <<storeVars, seqVars, readers, writer, waiting, snap, calls>>

\* the body of insertCustomMetric or insertExternalMetric
InsertStep(g) ==
    /\ pc[g] = "insert"
    /\ IF call[g].type = "custom"
       THEN LET r == insertCustomMetric(customMetricsStore, call[g].value,
                                        call[g].labels, now)
            IN  /\ customMetricsStore' = r.store
                /\ panicked' = (panicked \/ r.panic)
                /\ pc' = [pc EXCEPT ![g] = IF r.panic THEN "panic" ELSE "Unlock"]
                /\ UNCHANGED externalMetricsStore
       ELSE /\ externalMetricsStore' =
                  insertExternalMetric(externalMetricsStore, call[g].value,
                                       call[g].keys, now)
            /\ pc' = [pc EXCEPT ![g] = "Unlock"]
            /\ UNCHANGED <<customMetricsStore, panicked>>
    /\ UNCHANGED <<now, op, ret, call, readers, writer, waiting, snap, order, calls>>

\* RemoveExpired: one iteration of the loop over the custom metrics
SweepCustom(g, m) ==
    /\ pc[g] = "sweepCustom"
    /\ m \in call[g].todo
    /\ LET groups == IF Has(customMetricsStore, m)
                     THEN SweepGroups(customMetricsStore[m], now) ELSE EmptyMap
           cs == IF DOMAIN groups = {}
                 THEN Restrict(customMetricsStore, DOMAIN customMetricsStore \ {m})
                 ELSE Put(customMetricsStore, m, groups)
           next == IF call[g].todo = {m}
                   THEN SweepFrom("external", cs, externalMetricsStore)
                   ELSE [pc |-> "sweepCustom", todo |-> call[g].todo \ {m}]
       IN  /\ customMetricsStore' = cs
           /\ pc' = [pc EXCEPT ![g] = next.pc]
           /\ call' = [call EXCEPT ![g].todo = next.todo]
           /\ order' = [order EXCEPT !.custom =
                            Restrict(@, {p \in DOMAIN @ : CustomHas(cs, p)})]
    /\ UNCHANGED <<externalMetricsStore, seqVars, readers, writer, waiting, snap, calls>>

\* RemoveExpired: one iteration of the loop over the external metrics
SweepExternal(g, m) ==
    /\ pc[g] = "sweepExternal"
    /\ m \in call[g].todo
    /\ LET metrics == IF Has(externalMetricsStore, m)
                      THEN SweepResources(externalMetricsStore[m], now) ELSE EmptyMap
           es == IF DOMAIN metrics = {}
                 THEN Restrict(externalMetricsStore, DOMAIN externalMetricsStore \ {m})
                 ELSE Put(externalMetricsStore, m, metrics)
       IN  /\ externalMetricsStore' = es
           /\ order' = [order EXCEPT !.external =
                            Restrict(@, {p \in DOMAIN @ : p \in ExternalPaths(es)})]
    /\ pc' = [pc EXCEPT ![g] = IF call[g].todo = {m} THEN "Unlock" ELSE "sweepExternal"]
    /\ call' = [call EXCEPT ![g].todo = call[g].todo \ {m}]
    /\ UNCHANGED <<customMetricsStore, seqVars, readers, writer, waiting, snap, calls>>

\* the deferred s.Unlock(), on return and on panic: the blocked readers are
\* admitted and the writer mutex is released; a panic then unwinds the goroutine
Unlock(g) ==
    /\ pc[g] \in {"Unlock", "panic"}
    /\ LET admitted == {h \in Readers : pc[h] = "RBlocked"}
       IN  /\ readers' = readers \cup admitted
           /\ pc' = [h \in Procs |->
                        IF h = g THEN (IF pc[g] = "panic" THEN "dead" ELSE "idle")
                        ELSE IF h \in admitted THEN "read" ELSE pc[h]]
    /\ writer' = writer \ {g}
    /\ call' = [call EXCEPT ![g] = None]
    /\ snap' = [custom |-> customMetricsStore, external |-> externalMetricsStore]
    /\ order' = IF call[g].name = "Insert" /\ pc[g] = "Unlock"
                THEN [order EXCEPT ![call[g].type][IdentityOf(call[g])].returned = TRUE]
                ELSE order
    /\ UNCHANGED <<storeVars, seqVars, waiting, calls>>

\* s.RLock(): the read lock is taken, or the goroutine blocks behind a writer
RLock(g) ==
    /\ pc[g] = "RLock"
    /\ IF CanRLock
       THEN /\ readers' = readers \cup {g}
            /\ pc' = [pc EXCEPT ![g] = "read"]
       ELSE /\ readers' = readers
            /\ pc' = [pc EXCEPT ![g] = "RBlocked"]
    /\ UNCHANGED <<storeVars, seqVars, call, writer, waiting, snap, order, calls>>

\* the body of a read: the result is computed
ReadBody(g) ==
    /\ pc[g] = "read"
    /\ \E r \in ReadResult(call[g], customMetricsStore, externalMetricsStore) :
          call' = [call EXCEPT ![g].ret = Result(r)]
    /\ pc' = [pc EXCEPT ![g] = "RUnlock"]
    /\ UNCHANGED <<storeVars, seqVars, readers, writer, waiting, snap, order, calls>>

\* the deferred s.RUnlock(): the read returns its result
RUnlock(g) ==
    /\ pc[g] = "RUnlock"
    /\ readers' = readers \ {g}
    /\ pc' = [pc EXCEPT ![g] = "idle"]
    /\ call' = [call EXCEPT ![g] = None]
    /\ UNCHANGED <<storeVars, seqVars, writer, waiting, snap, order, calls>>

\* a panic nobody recovers ends the process: every goroutine stops
Exit ==
    /\ \E g \in Procs : pc[g] = "dead"
    /\ \E g \in Procs : pc[g] # "dead"
    /\ pc' = [g \in Procs |-> "dead"]
    /\ call' = [g \in Procs |-> None]
    /\ readers' = {}
    /\ writer' = {}
    /\ waiting' = {}
    /\ UNCHANGED <<storeVars, seqVars, snap, order, calls>>

\* time passes while the goroutines run
Clock ==
    /\ now + TTL <= MaxTime
    /\ now' = now + TTL
    /\ UNCHANGED <<storeVars, panicked, op, ret, concVars>>

\* the steps of goroutine g once it has called an operation
Step(g) ==
    \/ Enter(g)
    \/ InsertStep(g)
    \/ \E m \in MetricNames : SweepCustom(g, m)
    \/ \E m \in ExternalNames : SweepExternal(g, m)
    \/ Unlock(g)
    \/ RLock(g)
    \/ ReadBody(g)
    \/ RUnlock(g)

NextConc ==
    \/ \E g \in Writers, c \in WriterCalls : Start(g, c)
    \/ \E g \in Readers, c \in ReaderCalls : Start(g, c)
    \/ \E g \in Writers : Lock(g)
    \/ \E g \in Procs : Step(g)
    \/ Exit
    \/ Clock

\* the scheduler runs every goroutine that can take a step, and the writer
\* mutex (a sync.Mutex, which hands over to a waiter it has starved) is
\* eventually given to every goroutine that keeps waiting for it
Fairness ==
    /\ \A g \in Procs : WF_vars(Step(g))
    /\ \A g \in Writers : SF_vars(Lock(g))

SpecConc == Init /\ [][NextConc]_vars /\ Fairness

----------------------------------------------------------------------------
(* Claims about the store's contents and its reads *)

Found(v) == [isNil |-> FALSE, Value |-> v]

\* the paths the collected custom metrics are stored at
AllCustomPaths == {PathOf(in.Custom) : in \in CustomInputs}

Lookup(store, p) == GetMetricsByName(store, p[1], p[2], p[3], p[4])

\* the step is an Insert of a custom metric at path p
InsertsAt(p) == op'.name = "InsertCustom" /\ PathOf(op'.value) = p

\* the entry at p is there before the step, the step is no Insert at p, and the
\* entry has not expired after the step
KeepsAt(p) ==
    /\ CustomHas(customMetricsStore, p)
    /\ ~InsertsAt(p)
    /\ ~Before(CustomAt(customMetricsStore, p).TTL, now')

\* the value an Insert at p stores, or the value that is kept at p
ValueAfter(p) ==
    IF InsertsAt(p) THEN op'.value ELSE CustomAt(customMetricsStore, p).Value

\* GetMetricsByName at the path p can return v and nothing else
ReturnsExactly(store, p, v) == Lookup(store, p) = {Found(v)}

\* with an empty namespace in p: GetMetricsByName can return v, returns a value
\* stored under the object name in some namespace, and returns v alone when no
\* other namespace holds the object name
ReturnsAmong(store, p, v) ==
    LET group == store[p[1]][p[2]]
        holders == {ns \in DOMAIN group : Has(group[ns], p[4])}
    IN  /\ Found(v) \in Lookup(store, p)
        /\ Lookup(store, p) = {Found(group[ns][p[4]].Value) : ns \in holders}
        /\ holders = {p[3]} => ReturnsExactly(store, p, v)

ExternalHolding(store, metric) ==
    {q \in ExternalPaths(store) :
        /\ ExternalAt(store, q).Value.MetricName = metric.MetricName
        /\ ExternalAt(store, q).Value.MetricLabels = metric.MetricLabels}

\* the custom entries whose value belongs at path p
CustomHolding(store, p) ==
    {q \in CustomPaths(store) : PathOf(CustomAt(store, q).Value) = p}

\* C2: re-inserting a metric at an identity that is already stored (custom: the
\* path; external: metric name and label set) replaces the stored value, sets
\* expiresAt to the time of the re-insert plus the TTL of 15 minutes, and leaves
\* exactly one entry for that identity.
C2_ReinsertOverwrites ==
    [][/\ (op'.name = "InsertCustom"
              /\ PathOf(op'.value) \in CustomPaths(customMetricsStore)) =>
             LET p == PathOf(op'.value)
             IN  /\ CustomPaths(customMetricsStore') = CustomPaths(customMetricsStore)
                 /\ CustomHolding(customMetricsStore', p) = {p}
                 /\ CustomAt(customMetricsStore', p) =
                       [Value |-> op'.value, Labels |-> op'.labels, TTL |-> now' + TTL]
       /\ (op'.name = "InsertExternal"
              /\ ExternalHolding(externalMetricsStore, op'.value) # {}) =>
             /\ Cardinality(ExternalPaths(externalMetricsStore')) =
                   Cardinality(ExternalPaths(externalMetricsStore))
             /\ Cardinality(ExternalHolding(externalMetricsStore', op'.value)) = 1
             /\ \A q \in ExternalHolding(externalMetricsStore', op'.value) :
                   ExternalAt(externalMetricsStore', q) =
                       [Value |-> op'.value, TTL |-> now' + TTL]]_vars

\* a custom metric has been re-inserted TTL minutes after its Insert, with
\* another quantity
C2_Witness ==
    /\ op.name = "InsertCustom"
    /\ op.branch = "overwrite"
    /\ op.value.Value = 7
    /\ now = TTL
    /\ CustomAt(customMetricsStore, PathOf(op.value)).TTL = 2 * TTL
    /\ ExternalPaths(externalMetricsStore) # {}

\* no map of the store is empty
NoEmptyContainer(cs, es) ==
    /\ \A m \in DOMAIN cs :
          /\ DOMAIN cs[m] # {}
          /\ \A gr \in DOMAIN cs[m] :
                /\ DOMAIN cs[m][gr] # {}
                /\ \A ns \in DOMAIN cs[m][gr] : DOMAIN cs[m][gr][ns] # {}
    /\ \A m \in DOMAIN es : DOMAIN es[m] # {}

\* after the step no entry has an expiresAt before now, and no map is empty
SweptClean ==
    /\ \A p \in CustomPaths(customMetricsStore') :
          ~Before(CustomAt(customMetricsStore', p).TTL, now)
    /\ \A q \in ExternalPaths(externalMetricsStore') :
          ~Before(ExternalAt(externalMetricsStore', q).TTL, now)
    /\ NoEmptyContainer(customMetricsStore', externalMetricsStore')

\* the custom paths the step removes
RemovedPaths == CustomPaths(customMetricsStore) \ CustomPaths(customMetricsStore')

\* the namespaces that hold the object name of p after the step
HoldersAfter(p) ==
    IF Has(customMetricsStore', p[1]) /\ Has(customMetricsStore'[p[1]], p[2])
    THEN {ns \in DOMAIN customMetricsStore'[p[1]][p[2]] :
             Has(customMetricsStore'[p[1]][p[2]][ns], p[4])}
    ELSE {}

----------------------------------------------------------------------------
(* Claims about the goroutines and the lock *)

\* the Inserts at identity p of type t that have been called and have not ended
Inserting(t, p) == InsertingAt(t, p, "nobody")

\* every operation has ended
Quiet == \A g \in Procs : ~InProgress(g)

\* C4: no writer (Insert or RemoveExpired) is inside its critical section
\* together with a reader or another writer, while readers may be inside
\* together; and the result of every read is the result of that read against
\* the store as a completed write (or the construction) left it, never against
\* an intermediate state of a write.
C4_WritersAlone ==
    /\ \A g \in Procs :
          Writing(g) => \A h \in Procs \ {g} : ~Writing(h) /\ ~Reading(h)
    /\ \A g \in Readers :
          pc[g] = "RUnlock" =>
              call[g].ret.result \in ReadResult(call[g], snap.custom, snap.external)

\* two readers are inside together, no writer is, and one of the readers has
\* read the value an Insert that has returned stored
C4_Witness ==
    /\ pc["r1"] = "RUnlock"
    /\ call["r1"].name = "GetMetricsBySelector"
    /\ ~call["r1"].ret.result.isNil
    /\ call["r1"].ret.result.Items # {}
    /\ pc["r2"] = "read"
    /\ \A w \in Writers : ~Writing(w)

\* C5: when no Insert for an identity is in progress any more and the one that
\* acquired the exclusive lock last has returned, the store holds exactly one
\* entry for that identity and its value is the value of that Insert, whatever
\* the Inserts for other identities did; this for every identity inserted (and
\* not swept since).
C5_LastWriteWins ==
    /\ \A p \in DOMAIN order.custom :
          (Inserting("custom", p) = {} /\ order.custom[p].returned) =>
              /\ CustomHas(customMetricsStore, p)
              /\ CustomAt(customMetricsStore, p).Value = order.custom[p].value
              /\ CustomHolding(customMetricsStore, p) = {p}
    /\ \A p \in DOMAIN order.external :
          (Inserting("external", p) = {} /\ order.external[p].returned) =>
              /\ p \in ExternalPaths(externalMetricsStore)
              /\ ExternalAt(externalMetricsStore, p).Value = order.external[p].value
              /\ ExternalHolding(externalMetricsStore, order.external[p].value) = {p}

\* two Inserts with different values for one identity ran concurrently (the
\* second was waiting for the lock when the first acquired it), both have
\* returned, and the store holds the value of the one that acquired it last;
\* an Insert for another identity has returned too and its entry is stored
C5_Witness ==
    /\ pc["w1"] = "idle"
    /\ pc["w2"] = "idle"
    /\ \E p \in DOMAIN order.custom :
          /\ order.custom[p].raced
          /\ order.custom[p].returned
          /\ CustomAt(customMetricsStore, p).Value = order.custom[p].value
    /\ \E q \in DOMAIN order.external :
          /\ order.external[q].returned
          /\ q \in ExternalPaths(externalMetricsStore)

\* the lock is free whenever no operation is in progress
LockFree == Quiet => (readers = {} /\ writer = {} /\ waiting = {})

\* C6 as claimed: under fair scheduling every started Insert and RemoveExpired
\* eventually acquires the exclusive lock and completes, every started read
\* eventually completes, and the lock is free whenever no operation is in
\* progress.
C6_AsClaimed ==
    /\ []LockFree
    /\ \A g \in Writers : (pc[g] = "Lock") ~> Writing(g)
    /\ \A g \in Procs : InProgress(g) ~> (pc[g] = "idle")

\* C6, what the code does: under fair scheduling every started operation
\* eventually acquires its lock and ends, by returning or by a panic (its own,
\* in insertCustomMetric, or the one that ends the process), and the lock is
\* free whenever no operation is in progress: the deferred Unlock and RUnlock
\* release it on every exit path, the panic included.
C6_LockReleased ==
    /\ []LockFree
    /\ \A g \in Writers : (pc[g] = "Lock") ~> (Writing(g) \/ pc[g] = "dead")
    /\ \A g \in Procs : InProgress(g) ~> ~InProgress(g)

\* an Insert has panicked and its deferred Unlock has released the lock while
\* a reader was blocked behind it: the reader is inside, the writer is gone
C6_Witness ==
    /\ pc["w1"] = "dead"
    /\ writer = {}
    /\ pc["r1"] = "read"
    /\ pc["w2"] = "idle"
    /\ calls = MaxCalls

\* C7: an Insert of a custom metric changes only the entry at its own path:
\* every other custom entry and every external entry keeps its value, labels
\* and expiresAt; an Insert of an external metric changes only the entry at
\* (metricName, canonical label string).
C7_InsertFrame ==
    [][/\ op'.name = "InsertCustom" =>
             LET p == PathOf(op'.value)
             IN  /\ externalMetricsStore' = externalMetricsStore
                 /\ CustomPaths(customMetricsStore') =
                       CustomPaths(customMetricsStore) \cup {p}
                 /\ \A q \in CustomPaths(customMetricsStore) \ {p} :
                       CustomAt(customMetricsStore', q) = CustomAt(customMetricsStore, q)
       /\ op'.name = "InsertExternal" =>
             LET p == <<op'.value.MetricName, op'.labelsKey>>
             IN  /\ customMetricsStore' = customMetricsStore
                 /\ ExternalPaths(externalMetricsStore') =
                       ExternalPaths(externalMetricsStore) \cup {p}
                 /\ \A q \in ExternalPaths(externalMetricsStore) \ {p} :
                       ExternalAt(externalMetricsStore', q) =
                           ExternalAt(externalMetricsStore, q)]_vars

\* an external metric has been inserted under a new metric name next to an
\* older external entry, which is still there
C7_Witness ==
    /\ op.name = "InsertExternal"
    /\ ~op.overwrite
    /\ now = TTL
    /\ \E q \in ExternalPaths(externalMetricsStore) :
          /\ q[1] # op.value.MetricName
          /\ ExternalAt(externalMetricsStore, q).TTL = TTL

\* the stored values under (metricName, groupResource) in the namespaces asked
\* for whose labels match the selector
MatchingStored(store, metricName, groupResource, namespace, selector) ==
    {CustomAt(store, p).Value :
        p \in {q \in CustomPaths(store) :
                 /\ q[1] = metricName
                 /\ q[2] = groupResource
                 /\ (namespace = "" \/ q[3] = namespace)
                 /\ Matches(selector, CustomAt(store, q).Labels)}}

\* C8: GetMetricsBySelector returns exactly the stored values under
\* (metricName, groupResource) whose labels match the selector, from every
\* namespace when the namespace is empty and from the given namespace alone
\* otherwise (a nil result holds no value).
C8_SelectorReturnsMatches ==
    op.name = "GetMetricsBySelector" =>
        LET expected == MatchingStored(customMetricsStore, op.metricName,
                                       op.groupResource, op.namespace, op.selector)
        IN  IF ret.isNil THEN expected = {} ELSE ret.Items = expected

\* a selector query with an empty namespace has returned the matching values
\* of two namespaces
C8_Witness ==
    /\ op.name = "GetMetricsBySelector"
    /\ op.namespace = ""
    /\ op.selector = (KeyA :> Val1)
    /\ ~ret.isNil
    /\ Cardinality({v.DescribedObject.Namespace : v \in ret.Items}) = 2

\* C9: the canonical label string of a label map does not depend on the order
\* its pairs are visited in; two external metrics with the same name and the
\* same key/value pairs occupy one stored entry, the later Insert overwriting
\* the earlier; the store holds at most one entry per metric name and label set.
C9_CanonicalLabels ==
    /\ \A l \in ExternalLabels :
          \A o1, o2 \in RangeOrders(l) : hashLabelMap(l, o1) = hashLabelMap(l, o2)
    /\ \A q1, q2 \in ExternalPaths(externalMetricsStore) :
          (/\ ExternalAt(externalMetricsStore, q1).Value.MetricName =
                 ExternalAt(externalMetricsStore, q2).Value.MetricName
           /\ ExternalAt(externalMetricsStore, q1).Value.MetricLabels =
                 ExternalAt(externalMetricsStore, q2).Value.MetricLabels) => q1 = q2
    /\ op.name = "InsertExternal" =>
          /\ ExternalHolding(externalMetricsStore, op.value) =
                {<<op.value.MetricName, op.labelsKey>>}
          /\ ExternalAt(externalMetricsStore,
                        <<op.value.MetricName, op.labelsKey>>).Value = op.value

\* an external metric with the labels {b: 2, a: 1}, visited in this order, has
\* overwritten the entry of an earlier Insert
C9_Witness ==
    /\ op.name = "InsertExternal"
    /\ op.keys = <<KeyB, KeyA>>
    /\ op.overwrite
    /\ op.value.Value = 7
    /\ now = TTL
    /\ Cardinality(ExternalPaths(externalMetricsStore)) = 1

\* C10: a lookup miss is no error and no panic.  For a metric name or group
\* resource not in the store GetMetricsBySelector returns nil and
\* GetMetricsByName not-found; for a known metric and group resource but a
\* namespace or an object name that is not stored they return an empty list and
\* not-found; GetExternalMetric for an unknown name returns an empty list and a
\* nil error.
C10_MissIsNoError ==
    [][LET known == /\ Has(customMetricsStore, op'.metricName)
                    /\ Has(customMetricsStore[op'.metricName], op'.groupResource)
           group == customMetricsStore[op'.metricName][op'.groupResource]
       IN  /\ op'.name \in ReadNames => panicked' = panicked
           /\ (op'.name = "GetMetricsBySelector" /\ ~known) => ret' = Nil
           /\ (op'.name = "GetMetricsBySelector" /\ known /\ op'.namespace # ""
                 /\ ~Has(group, op'.namespace)) => ret' = [isNil |-> FALSE, Items |-> {}]
           /\ (op'.name = "GetMetricsByName" /\ ~known) => ret' = Nil
           /\ (op'.name = "GetMetricsByName" /\ known /\ op'.namespace # ""
                 /\ ~Has(group, op'.namespace)) => ret' = Nil
           /\ (op'.name = "GetMetricsByName" /\ known
                 /\ \A ns \in DOMAIN group :
                       (op'.namespace \in {"", ns}) => ~Has(group[ns], op'.objectName))
                 => ret' = Nil
           /\ (op'.name = "GetExternalMetric"
                 /\ ~Has(externalMetricsStore, op'.metricName))
                 => ret' = [Items |-> {}, err |-> "nil"]]_vars

\* GetExternalMetric has been asked for a metric name that is not stored, in a
\* store that holds another external metric
C10_Witness ==
    /\ op.name = "GetExternalMetric"
    /\ ~Has(externalMetricsStore, op.metricName)
    /\ externalMetricsStore # EmptyMap
    /\ ret = [Items |-> {}, err |-> "nil"]

\* C11: GetExternalMetric(namespace, metricName, selector) returns exactly the
\* stored external values under metricName whose labels match the selector; the
\* namespace argument is not consulted, the result is the same for every
\* namespace.
C11_ExternalIgnoresNamespace ==
    op.name = "GetExternalMetric" =>
        LET matching == {q \in ExternalPaths(externalMetricsStore) :
                           /\ q[1] = op.metricName
                           /\ \A k \in DOMAIN op.selector :
                                 LET l == ExternalAt(externalMetricsStore, q).Value.MetricLabels
                                 IN  k \in DOMAIN l /\ l[k] = op.selector[k]}
        IN  /\ ret.Items = {ExternalAt(externalMetricsStore, q).Value : q \in matching}
            /\ ret.err = "nil"
            /\ \A ns \in Namespaces \cup {"ns2"} :
                  GetExternalMetric(externalMetricsStore, ns, op.metricName,
                                    op.selector) = ret

\* GetExternalMetric has been asked in a namespace, with a selector, for a name
\* that holds two entries, and has returned both
C11_Witness ==
    /\ op.name = "GetExternalMetric"
    /\ op.namespace = "ns1"
    /\ op.selector = (KeyA :> Val1)
    /\ Cardinality(ret.Items) = 2

\* C12: GetMetricsByName(metricName, groupResource, namespace, objectName) with
\* an empty namespace returns a value exactly when at least one namespace under
\* (metricName, groupResource) holds the object name, and the value is the one
\* stored in one of those namespaces; with a non-empty namespace it returns the
\* value stored at exactly that identity, or not-found.
C12_ByNameNamespaces ==
    op.name = "GetMetricsByName" =>
        LET holders == {q \in CustomPaths(customMetricsStore) :
                          /\ q[1] = op.metricName
                          /\ q[2] = op.groupResource
                          /\ q[4] = op.objectName}
            exact == {q \in holders : q[3] = op.namespace}
        IN  IF op.namespace = ""
            THEN /\ ~ret.isNil <=> holders # {}
                 /\ ~ret.isNil => \E q \in holders :
                        ret.Value = CustomAt(customMetricsStore, q).Value
            ELSE IF exact = {} THEN ret = Nil
                 ELSE /\ ~ret.isNil
                      /\ \A q \in exact : ret.Value = CustomAt(customMetricsStore, q).Value

\* a lookup with an empty namespace has returned the value of an object stored
\* in a namespace that is not empty
C12_Witness ==
    /\ op.name = "GetMetricsByName"
    /\ op.namespace = ""
    /\ ~ret.isNil
    /\ ret.Value.DescribedObject.Namespace = "ns1"

\* C13: ListAllMetrics returns one info per (metricName, groupResource,
\* namespace) container present in the store, holding the group resource, the
\* metric name and namespaced = (the namespace is not empty); a container whose
\* entries have all expired but are not yet removed is listed; nothing is
\* returned for a container that is absent.
C13_ListsContainers ==
    op.name = "ListAllMetrics" =>
        LET present == {<<q[1], q[2], q[3]>> : q \in CustomPaths(customMetricsStore)}
        IN  /\ DOMAIN ret = present
            /\ \A c \in present :
                  ret[c] = [GroupResource |-> c[2], Namespaced |-> c[3] # "",
                            Metric |-> c[1]]

\* ListAllMetrics has listed a container whose entries have all expired and
\* a container with an empty namespace
C13_Witness ==
    /\ op.name = "ListAllMetrics"
    /\ \E c \in DOMAIN ret :
          \A q \in CustomPaths(customMetricsStore) :
             <<q[1], q[2], q[3]>> = c =>
                Before(CustomAt(customMetricsStore, q).TTL, now)
    /\ \E c \in DOMAIN ret : ~ret[c].Namespaced

----------------------------------------------------------------------------
(* The collectors: zmon_collector.go, skipper_collector.go, nakadi_collector.go.
   A call and its inputs are recorded in op, what it returns in ret.  What the
   cluster API, the delegate plugin and a delegate collector answer is an input
   of the call. *)

MaxRules == 3

\* an error value: nil, or the format of the message and its arguments
NoError == [isNil |-> TRUE]
Errorf(format, args) == [isNil |-> FALSE, format |-> format, args |-> args]

\* errors of the cluster API and of a delegate
ErrNotFound == Errorf("not found", <<>>)
ErrPlugin == Errorf("delegate plugin failed", <<>>)

NoCollector == [isNil |-> TRUE]

\* host names, as sequences of characters
Hosts == {<<"a", ".", "b", ".", "c">>, <<"d">>}

\* ingress.Spec.Rules: up to MaxRules rules, each with a host
Rules == UNION {[1..n -> Hosts] : n \in 0..MaxRules}

\* strings.Replace(s, old, new, -1) for a one character old
Replace(s, old, new) == [i \in 1..Len(s) |-> IF s[i] = old THEN new ELSE s[i]]

rpsQueryHead == "scalar(sum(rate(skipper_serve_host_duration_seconds_count{host=\""
rpsQueryTail == "\"}[1m])))"
rpsMetricName == "requests-per-second"

\* fmt.Sprintf(rpsQuery, host): the text before %s, the host, the text after
SprintfRpsQuery(host) == <<rpsQueryHead>> \o host \o <<rpsQueryTail>>

\* the ingress a skipper collector is created for, and the scale targets of its hpa
IngressRef == [Kind |-> "Ingress", Namespace |-> "ns1", Name |-> "a"]
ScaleTargetKinds == {"Deployment", "StatefulSet", "ReplicaSet"}
Interval == 60

\* MetricConfig of a requests-per-second metric
SkipperConfigs ==
    {[Type |-> "Object", Name |-> rpsMetricName, Labels |-> EmptyMap,
      ObjectReference |-> IngressRef, PerReplica |-> pr, Config |-> EmptyMap] :
        pr \in BOOLEAN}

\* NewSkipperCollector: the collector keeps the configuration and the hpa
NewSkipperCollector(hpa, config, interval) ==
    [collector |-> [kind |-> "skipper", objectReference |-> config.ObjectReference,
                    hpa |-> hpa, metricName |-> config.Name, interval |-> interval,
                    config |-> config],
     err |-> NoError]

SkipperCollectors ==
    {NewSkipperCollector([Namespace |-> "ns1",
                          ScaleTargetRef |-> [Kind |-> k, Name |-> "a"]],
                         config, Interval).collector :
        k \in ScaleTargetKinds, config \in SkipperConfigs}

\* c.plugin.NewCollector(c.hpa, &config, c.interval): the delegate plugin creates
\* a collector from the configuration it is handed, or fails
PluginNewCollector(hpa, config, interval, fails) ==
    IF fails THEN [collector |-> NoCollector, err |-> ErrPlugin]
    ELSE [collector |-> [kind |-> "delegate", hpa |-> hpa, config |-> config,
                         interval |-> interval],
          err |-> NoError]

\* the configuration the loop of getCollector hands to the plugin for a rule
RuleConfig(config, host) ==
    [config EXCEPT !.Config = ("query" :> SprintfRpsQuery(Replace(host, ".", "_"))),
                   !.PerReplica = FALSE]

\* NewMaxCollector(interval, collectors...)
NewMaxCollector(interval, collectors) ==
    [kind |-> "max", interval |-> interval, collectors |-> collectors]

\* (mutant: a single sub-collector is wrapped as well)
getCollectorAlwaysMax(c, ingress, failAt) ==
    IF ~ingress.err.isNil THEN [collector |-> NoCollector, err |-> ingress.err]
    ELSE IF failAt \in 1..Len(ingress.Rules)
    THEN [collector |-> NoCollector, err |-> ErrPlugin]
    ELSE LET collectors ==
                 [i \in 1..Len(ingress.Rules) |->
                     PluginNewCollector(c.hpa, RuleConfig(c.config, ingress.Rules[i]),
                                        c.interval, FALSE).collector]
         IN  IF Len(collectors) >= 1
             THEN [collector |-> NewMaxCollector(c.interval, collectors), err |-> NoError]
             ELSE [collector |-> NoCollector,
                   err |-> Errorf("no hosts defined on ingress %s/%s, unable to create collector",
                                  <<c.objectReference.Namespace, c.objectReference.Name>>)]

\* getCollector of the skipper collector c.  ingress is the answer of the cluster
\* API (the ingress, or an error); the plugin fails at the rule failAt (at none
\* when failAt is 0)
getCollector(c, ingress, failAt) ==
    IF ~ingress.err.isNil THEN [collector |-> NoCollector, err |-> ingress.err]
    ELSE IF failAt \in 1..Len(ingress.Rules)
    THEN [collector |-> NoCollector,
          err |-> PluginNewCollector(c.hpa, RuleConfig(c.config, ingress.Rules[failAt]),
                                     c.interval, TRUE).err]
    ELSE LET collectors ==
                 [i \in 1..Len(ingress.Rules) |->
                     PluginNewCollector(c.hpa, RuleConfig(c.config, ingress.Rules[i]),
                                        c.interval, FALSE).collector]
         IN  IF Len(collectors) > 1
             THEN [collector |-> NewMaxCollector(c.interval, collectors), err |-> NoError]
             ELSE IF Len(collectors) = 1
             THEN [collector |-> collectors[1], err |-> NoError]
             ELSE [collector |-> NoCollector,
                   err |-> Errorf("no hosts defined on ingress %s/%s, unable to create collector",
                                  <<c.objectReference.Namespace, c.objectReference.Name>>)]

\* the answers of the cluster API to the Get of the ingress
Ingresses ==
    {[err |-> NoError, Rules |-> r] : r \in Rules}
        \cup {[err |-> ErrNotFound, Rules |-> <<>>]}

\* ------------------------------------------------------------------
\* float64 arithmetic of SkipperCollector.GetMetrics.  A float64 has a 53 bit
\* significand; the integers of the model checker have 32 bits, so the
\* significand is scaled down to MantissaBits bits and the milli values are
\* chosen around 2^MantissaBits.  What is said about 2^MantissaBits here is
\* about 2^53 in the program.
MantissaBits == 10

RECURSIVE Pow2(_)
Pow2(n) == IF n = 0 THEN 1 ELSE 2 * Pow2(n - 1)

Abs(x) == IF x < 0 THEN -x ELSE x
Sign(x) == IF x < 0 THEN -1 ELSE 1

\* the integer nearest to n/d, the even one of two that are equally near
RoundHalfEven(n, d) ==
    LET m == n \div d
        rem == n % d
    IN  IF 2 * rem > d THEN m + 1
        ELSE IF 2 * rem = d THEN m + (m % 2)
        ELSE m

\* the binary exponent k of the unit in the last place of the positive
\* rational n/d: 2^(MantissaBits-1) <= (n/d) / 2^k < 2^MantissaBits
RECURSIVE UlpExponent(_, _, _)
UlpExponent(n, d, k) ==
    IF k >= 0 /\ n >= Pow2(MantissaBits) * d * Pow2(k) THEN UlpExponent(n, d, k + 1)
    ELSE IF k > 0 /\ n < Pow2(MantissaBits - 1) * d * Pow2(k) THEN UlpExponent(n, d, k - 1)
    ELSE IF k <= 0 /\ n * Pow2(-k) < Pow2(MantissaBits - 1) * d THEN UlpExponent(n, d, k - 1)
    ELSE k

\* the float nearest to the rational n/d (d > 0), as [m, k] for m * 2^k
RoundToFloat(n, d) ==
    IF n = 0 THEN [m |-> 0, k |-> 0]
    ELSE LET k == UlpExponent(Abs(n), d, 0)
         IN  [m |-> Sign(n) * (IF k >= 0 THEN RoundHalfEven(Abs(n), d * Pow2(k))
                               ELSE RoundHalfEven(Abs(n) * Pow2(-k), d)),
              k |-> k]

\* float64(x) of an integer x that is a float: the value is an integer again
Float64(x) ==
    LET f == RoundToFloat(x, 1)
    IN  IF f.k >= 0 THEN f.m * Pow2(f.k) ELSE x

\* int64(x / y) for the floats x and y (integers, y > 0): the quotient is
\* rounded to a float, the conversion truncates toward zero
Int64OfQuotient(x, y) ==
    LET f == RoundToFloat(x, y)
    IN  IF f.k >= 0 THEN f.m * Pow2(f.k)
        ELSE Sign(f.m) * (Abs(f.m) \div Pow2(-f.k))

\* value.Custom.Value.MilliValue() of the value a delegate returns
MilliValues ==
    {0, 1, 900, -900, 1000, Pow2(MantissaBits) - 1, Pow2(MantissaBits) + 1,
     -(Pow2(MantissaBits) + 1), Pow2(MantissaBits + 1) + 3}

\* deployment.Status.ReadyReplicas, sts.Status.ReadyReplicas (int32)
ReadyReplicas == {-1, 0, 1, 3, 7}

\* the CollectedMetric a delegate returns for the ingress
DelegateValue(v) ==
    [Type |-> "Object",
     Custom |-> CustomValue(IngressRef.Kind, IngressRef.Namespace, IngressRef.Name,
                            rpsMetricName, v),
     Labels |-> EmptyMap]

ErrDelegate == Errorf("delegate failed", <<>>)

\* what collector.GetMetrics() of the collector getCollector returned answers
DelegateResults ==
    {[values |-> <<DelegateValue(v)>>, err |-> NoError] : v \in MilliValues}
        \cup {[values |-> <<>>, err |-> NoError],
              [values |-> <<DelegateValue(900), DelegateValue(1)>>, err |-> NoError],
              [values |-> <<>>, err |-> ErrDelegate]}

\* the answers of the cluster API to the Get of the deployment or stateful set
ScaleTargets ==
    {[err |-> NoError, ReadyReplicas |-> r] : r \in ReadyReplicas}
        \cup {[err |-> ErrNotFound, ReadyReplicas |-> 0]}

\* (mutant: a scale target of another kind counts as one replica)
targetRefReplicasDefaultOne(hpa, scale) ==
    IF hpa.ScaleTargetRef.Kind \in {"Deployment", "StatefulSet"}
    THEN IF ~scale.err.isNil THEN [replicas |-> 0, err |-> scale.err]
         ELSE [replicas |-> scale.ReadyReplicas, err |-> NoError]
    ELSE [replicas |-> 1, err |-> NoError]

\* targetRefReplicas: the ready replicas of the hpa's scale target
targetRefReplicas(hpa, scale) ==
    IF hpa.ScaleTargetRef.Kind \in {"Deployment", "StatefulSet"}
    THEN IF ~scale.err.isNil THEN [replicas |-> 0, err |-> scale.err]
         ELSE [replicas |-> scale.ReadyReplicas, err |-> NoError]
    ELSE [replicas |-> 0, err |-> NoError]

\* the division a call has performed: none, or the dividend and the divisor
NoDivision == [isNone |-> TRUE]
Division(x, y) == [isNone |-> FALSE, dividend |-> x, divisor |-> y]

Failed(err) == [values |-> <<>>, err |-> err, division |-> NoDivision]

\* (mutant: the quotient is rounded to the nearest integer)
AverageRounded(milli, replicas) ==
    Sign(milli) * RoundHalfEven(Abs(Float64(milli)), Float64(replicas))

\* int64(float64(milli) / float64(replicas))
Average(milli, replicas) == Int64OfQuotient(Float64(milli), Float64(replicas))

\* SkipperCollector.GetMetrics.  delegate is what collector.GetMetrics() answers,
\* scale what the cluster API answers for the scale target
SkipperGetMetrics(c, ingress, failAt, delegate, scale) ==
    LET got == getCollector(c, ingress, failAt)
        target == targetRefReplicas(c.hpa, scale)
    IN  IF ~got.err.isNil THEN Failed(got.err)
        ELSE IF ~delegate.err.isNil THEN Failed(delegate.err)
        ELSE IF Len(delegate.values) # 1
        THEN Failed([isNil |-> FALSE,
                     format |-> "expected to only get one metric value, got %d",
                     d |-> Len(delegate.values)])
        ELSE IF ~target.err.isNil THEN Failed(target.err)
        ELSE IF target.replicas < 1
        THEN Failed([isNil |-> FALSE,
                     format |-> "unable to get average value for %d replicas",
                     d |-> target.replicas])
        ELSE LET value == delegate.values[1]
                 milli == value.Custom.Value
             IN  [values |-> <<[value EXCEPT !.Custom.Value =
                                    Average(milli, target.replicas)]>>,
                  err |-> NoError,
                  division |-> Division(Float64(milli), Float64(target.replicas))]

\* the ingresses the calls of GetMetrics are made with
SomeIngresses ==
    {i \in Ingresses : Len(i.Rules) <= 1}
        \cup {[err |-> NoError, Rules |-> [j \in 1..2 |-> <<"d">>]]}

\* (mutant: the replicas are looked up before the values are counted)
SkipperGetMetricsCallsReplicasFirst(c, ingress, failAt, delegate, scale) ==
    LET got == getCollector(c, ingress, failAt)
        created == IF ~ingress.err.isNil THEN 0
                   ELSE IF failAt \in 1..Len(ingress.Rules) THEN failAt
                   ELSE Len(ingress.Rules)
    IN  <<"Ingresses.Get">>
           \o [i \in 1..created |-> "plugin.NewCollector"]
           \o (IF ~got.err.isNil THEN <<>>
               ELSE <<"collector.GetMetrics">>
                       \o (IF delegate.err.isNil
                              /\ c.hpa.ScaleTargetRef.Kind \in {"Deployment", "StatefulSet"}
                           THEN <<"ScaleTarget.Get">> ELSE <<>>))

\* the calls GetMetrics makes to the cluster API, the plugin and the delegate,
\* in order
SkipperGetMetricsCalls(c, ingress, failAt, delegate, scale) ==
    LET got == getCollector(c, ingress, failAt)
        created == IF ~ingress.err.isNil THEN 0
                   ELSE IF failAt \in 1..Len(ingress.Rules) THEN failAt
                   ELSE Len(ingress.Rules)
    IN  <<"Ingresses.Get">>
           \o [i \in 1..created |-> "plugin.NewCollector"]
           \o (IF ~got.err.isNil THEN <<>>
               ELSE <<"collector.GetMetrics">>
                       \o (IF delegate.err.isNil /\ Len(delegate.values) = 1
                              /\ c.hpa.ScaleTargetRef.Kind \in {"Deployment", "StatefulSet"}
                           THEN <<"ScaleTarget.Get">> ELSE <<>>))

\* op also holds the calls the operation made
CallSkipperGetMetrics(c, ingress, failAt, delegate, scale) ==
    /\ op' = [name |-> "SkipperCollector.GetMetrics", c |-> c, ingress |-> ingress,
              failAt |-> failAt, delegate |-> delegate, scale |-> scale,
              calls |-> SkipperGetMetricsCalls(c, ingress, failAt, delegate, scale)]
    /\ ret' = SkipperGetMetrics(c, ingress, failAt, delegate, scale)
    /\ UNCHANGED <<storeVars, now, panicked, concVars>>

\* (mutant: the loop writes to the collector's own configuration)
getCollectorReceiverAliased(c, ingress, failAt) ==
    IF ~ingress.err.isNil \/ Len(ingress.Rules) = 0 THEN c
    ELSE LET last == IF failAt \in 1..Len(ingress.Rules) THEN failAt
                     ELSE Len(ingress.Rules)
         IN  [c EXCEPT !.config = RuleConfig(c.config, ingress.Rules[last])]

\* the collector c after getCollector: config := c.config copies the
\* configuration, and the loop assigns to the fields of the copy
getCollectorReceiver(c, ingress, failAt) ==
    LET config == c.config
        written == IF ~ingress.err.isNil \/ Len(ingress.Rules) = 0 THEN config
                   ELSE RuleConfig(config, ingress.Rules[1])
    IN  c

\* op also holds the collector as the call leaves it
CallGetCollector(c, ingress, failAt) ==
    /\ op' = [name |-> "getCollector", c |-> c, ingress |-> ingress, failAt |-> failAt,
              after |-> getCollectorReceiver(c, ingress, failAt)]
    /\ ret' = getCollector(c, ingress, failAt)
    /\ UNCHANGED <<storeVars, now, panicked, concVars>>

\* ------------------------------------------------------------------
\* The maximum-of combinator NewMaxCollector creates.  Its GetMetrics is
\* described by the design document only: it invokes every delegate in order,
\* an error of a delegate is returned at once, and of the values collected the
\* one with the largest quantity is returned, the first of equal ones; it
\* fails without delegates and when no delegate returns a value.

DelegateNames == <<"first", "second", "third", "fourth">>

\* what the delegate i of a combinator answers: an error, no value, or a value
MaxDelegateAnswers(i) ==
    {[values |-> <<[DelegateValue(v) EXCEPT !.Labels = ("delegate" :> DelegateNames[i])]>>,
      err |-> NoError] : v \in {3, 5, 7}}
        \cup {[values |-> <<>>, err |-> NoError],
              [values |-> <<>>, err |-> Errorf("delegate %s failed", <<DelegateNames[i]>>)]}

MaxDelegateResults ==
    UNION {{r \in [1..n -> UNION {MaxDelegateAnswers(i) : i \in 1..n}] :
              \A i \in 1..n : r[i] \in MaxDelegateAnswers(i)} : n \in 0..MaxRules}

\* (mutant: of equal values the later one is kept)
LargerOrLater(best, value) ==
    IF value.Custom.Value >= best.Custom.Value THEN value ELSE best

\* the larger of two collected values, the earlier one of equal ones
Larger(best, value) ==
    IF value.Custom.Value > best.Custom.Value THEN value ELSE best

\* the delegates from i on are invoked; collected are the values so far
RECURSIVE MaxInvoke(_, _, _, _)
MaxInvoke(results, i, collected, invoked) ==
    IF i > Len(results)
    THEN [values |-> collected, err |-> NoError, invoked |-> invoked]
    ELSE IF ~results[i].err.isNil
    THEN [values |-> <<>>, err |-> results[i].err, invoked |-> Append(invoked, i)]
    ELSE MaxInvoke(results, i + 1, collected \o results[i].values, Append(invoked, i))

\* the largest of the collected values
RECURSIVE MaxOf(_, _, _)
MaxOf(collected, i, best) ==
    IF i > Len(collected) THEN best
    ELSE MaxOf(collected, i + 1, Larger(best, collected[i]))

\* GetMetrics of the combinator, results being the answers of its delegates
MaxGetMetrics(results) ==
    LET all == MaxInvoke(results, 1, <<>>, <<>>)
    IN  IF Len(results) = 0
        THEN [values |-> <<>>, err |-> Errorf("no delegates", <<>>), invoked |-> <<>>]
        ELSE IF ~all.err.isNil THEN all
        ELSE IF Len(all.values) = 0
        THEN [values |-> <<>>, err |-> Errorf("no values", <<>>),
              invoked |-> all.invoked]
        ELSE [values |-> <<MaxOf(all.values, 2, all.values[1])>>, err |-> NoError,
              invoked |-> all.invoked]

CallMaxGetMetrics(results) ==
    /\ op' = [name |-> "MaxCollector.GetMetrics", results |-> results]
    /\ ret' = MaxGetMetrics(results)
    /\ UNCHANGED <<storeVars, now, panicked, concVars>>

\* ------------------------------------------------------------------
\* The plugins and the construction of the ZMON and Nakadi collectors

ZMONCheckMetric == "zmon-check"
zmonCheckIDLabelKey == "check-id"
zmonQueryLabelKey == "query"
NakadiUnconsumedEventsMetric == "nakadi-unconsumed-events"
NakadiConsumerLagSeconds == "nakadi-consumer-lag-seconds"
nakadiSubscriptionIDLabelKey == "subscription-id"
nakadiEventTypeLabelKey == "event-type"

\* config.Name: the names the plugins know, and one none of them knows
ConfigNames ==
    {ZMONCheckMetric, NakadiUnconsumedEventsMetric, NakadiConsumerLagSeconds,
     rpsMetricName, "queue-length"}

\* config.Labels: every part of two label maps that hold all the keys the
\* collectors look for, and a key none of them looks for
FullLabels ==
    {(zmonCheckIDLabelKey :> "1234") @@ (zmonQueryLabelKey :> "avg")
        @@ (nakadiSubscriptionIDLabelKey :> "sub-1") @@ (nakadiEventTypeLabelKey :> "orders")
        @@ ("team" :> "x"),
     (zmonCheckIDLabelKey :> "77") @@ (zmonQueryLabelKey :> "")
        @@ (nakadiSubscriptionIDLabelKey :> "") @@ (nakadiEventTypeLabelKey :> "payments")}

ConfigLabels == UNION {{Restrict(l, S) : S \in SUBSET DOMAIN l} : l \in FullLabels}

PluginConfigs ==
    {[Type |-> "External", Name |-> n, Labels |-> l, ObjectReference |-> IngressRef,
      PerReplica |-> FALSE, Config |-> EmptyMap] : n \in ConfigNames, l \in ConfigLabels}

Hpa == [Namespace |-> "ns1", ScaleTargetRef |-> [Kind |-> "Deployment", Name |-> "a"]]

NotSupported(config) ==
    [collector |-> NoCollector, err |-> Errorf("metric '%s' not supported", <<config.Name>>)]

\* (mutant: a missing query label is an empty query)
NewZMONCollectorQueryOptional(config, interval) ==
    IF ~Has(config.Labels, zmonCheckIDLabelKey)
    THEN [collector |-> NoCollector,
          err |-> Errorf("ZMON check ID not specified on metric", <<>>)]
    ELSE [collector |-> [kind |-> "zmon", interval |-> interval,
                         checkID |-> config.Labels[zmonCheckIDLabelKey],
                         query |-> IF Has(config.Labels, zmonQueryLabelKey)
                                   THEN config.Labels[zmonQueryLabelKey] ELSE "",
                         metricName |-> config.Name, metricType |-> config.Type,
                         labels |-> config.Labels],
          err |-> NoError]

\* NewZMONCollector (the endpoint and the token source are those of the plugin)
NewZMONCollector(config, interval) ==
    IF ~Has(config.Labels, zmonCheckIDLabelKey)
    THEN [collector |-> NoCollector,
          err |-> Errorf("ZMON check ID not specified on metric", <<>>)]
    ELSE IF ~Has(config.Labels, zmonQueryLabelKey)
    THEN [collector |-> NoCollector,
          err |-> Errorf("ZMON query not specified on metric", <<>>)]
    ELSE [collector |-> [kind |-> "zmon", interval |-> interval,
                         checkID |-> config.Labels[zmonCheckIDLabelKey],
                         query |-> config.Labels[zmonQueryLabelKey],
                         metricName |-> config.Name, metricType |-> config.Type,
                         labels |-> config.Labels],
          err |-> NoError]

\* NewNakadiStatsCollector
NewNakadiStatsCollector(config, interval) ==
    IF ~Has(config.Labels, nakadiSubscriptionIDLabelKey)
    THEN [collector |-> NoCollector,
          err |-> Errorf("nakadi subscription id not specified on metric", <<>>)]
    ELSE IF ~Has(config.Labels, nakadiEventTypeLabelKey)
    THEN [collector |-> NoCollector,
          err |-> Errorf("nakadi event type not specified on metric", <<>>)]
    ELSE [collector |-> [kind |-> "nakadi", interval |-> interval,
                         subscriptionID |-> config.Labels[nakadiSubscriptionIDLabelKey],
                         eventType |-> config.Labels[nakadiEventTypeLabelKey],
                         metricName |-> config.Name, metricType |-> config.Type,
                         labels |-> config.Labels],
          err |-> NoError]

\* (mutant: the metric name is not looked at)
ZMONPluginNewCollectorAnyName(hpa, config, interval) ==
    NewZMONCollector(config, interval)

\* ZMONCollectorPlugin.NewCollector
ZMONPluginNewCollector(hpa, config, interval) ==
    IF config.Name = ZMONCheckMetric THEN NewZMONCollector(config, interval)
    ELSE NotSupported(config)

\* NakadiCollectorPlugin.NewCollector
NakadiPluginNewCollector(hpa, config, interval) ==
    IF config.Name \in {NakadiUnconsumedEventsMetric, NakadiConsumerLagSeconds}
    THEN NewNakadiStatsCollector(config, interval)
    ELSE NotSupported(config)

\* SkipperCollectorPlugin.NewCollector
SkipperPluginNewCollector(hpa, config, interval) ==
    IF config.Name = rpsMetricName THEN NewSkipperCollector(hpa, config, interval)
    ELSE NotSupported(config)

Plugins == {"ZMON", "Nakadi", "Skipper"}

\* plugin.NewCollector(hpa, config, interval)
NewCollector(plugin, hpa, config, interval) ==
    CASE plugin = "ZMON" -> ZMONPluginNewCollector(hpa, config, interval)
      [] plugin = "Nakadi" -> NakadiPluginNewCollector(hpa, config, interval)
      [] plugin = "Skipper" -> SkipperPluginNewCollector(hpa, config, interval)

CallNewCollector(plugin, config) ==
    /\ op' = [name |-> "NewCollector", plugin |-> plugin, config |-> config]
    /\ ret' = NewCollector(plugin, Hpa, config, Interval)
    /\ UNCHANGED <<storeVars, now, panicked, concVars>>

CallNewZMONCollector(config) ==
    /\ op' = [name |-> "NewZMONCollector", config |-> config]
    /\ ret' = NewZMONCollector(config, Interval)
    /\ UNCHANGED <<storeVars, now, panicked, concVars>>

CallNewNakadiStatsCollector(config) ==
    /\ op' = [name |-> "NewNakadiStatsCollector", config |-> config]
    /\ ret' = NewNakadiStatsCollector(config, Interval)
    /\ UNCHANGED <<storeVars, now, panicked, concVars>>

\* ------------------------------------------------------------------
\* ZMONCollector.GetMetrics

\* the ZMON collectors that can be constructed
ZMONCollectors ==
    {NewZMONCollector(config, Interval).collector :
        config \in {x \in PluginConfigs : NewZMONCollector(x, Interval).err.isNil}}

\* what the check-results backend holds for a check
CheckResults == {0, 5, 42}

\* (mutant: the value returned is the result the backend holds)
ZMONGetMetricsQuerying(c, result) ==
    [values |-> <<[Type |-> c.metricType,
                   External |-> ExternalValue(c.metricName, c.labels, result)]>>,
     err |-> NoError,
     queries |-> <<c.checkID>>]

\* ZMONCollector.GetMetrics, the backend holding result for the collector's
\* check: the value returned, and the queries sent to the backend (none)
ZMONGetMetrics(c, result) ==
    [values |-> <<[Type |-> c.metricType,
                   External |-> ExternalValue(c.metricName, c.labels, 0)]>>,
     err |-> NoError,
     queries |-> <<>>]

CallZMONGetMetrics(c, result) ==
    /\ op' = [name |-> "ZMONCollector.GetMetrics", c |-> c, result |-> result]
    /\ ret' = ZMONGetMetrics(c, result)
    /\ UNCHANGED <<storeVars, now, panicked, concVars>>

\* ------------------------------------------------------------------
\* NakadiStatsCollector.GetMetrics: the body asks a queue service for the
\* approximate number of messages of a queue.  (It reads c.queueURL, c.sqs and
\* c.queueName, which NakadiStatsCollector does not declare.)

DigitValue ==
    ("0" :> 0) @@ ("1" :> 1) @@ ("2" :> 2) @@ ("3" :> 3) @@ ("4" :> 4)
        @@ ("5" :> 5) @@ ("6" :> 6) @@ ("7" :> 7) @@ ("8" :> 8) @@ ("9" :> 9)

ErrSyntax == Errorf("strconv.Atoi: parsing: invalid syntax", <<>>)

\* the digits of s from i on, n being the value of the digits before
RECURSIVE AtoiDigits(_, _, _)
AtoiDigits(s, i, n) ==
    IF i > Len(s) THEN [i |-> n, err |-> NoError]
    ELSE IF s[i] \notin DOMAIN DigitValue THEN [i |-> 0, err |-> ErrSyntax]
    ELSE AtoiDigits(s, i + 1, 10 * n + DigitValue[s[i]])

\* (mutant: the digits are read up to the first other character)
AtoiPrefix(s) ==
    LET stop == {j \in 1..Len(s) : s[j] \notin DOMAIN DigitValue}
        n == IF stop = {} THEN Len(s)
             ELSE (CHOOSE j \in stop : \A k \in stop : j <= k) - 1
    IN  AtoiDigits(SubSeq(s, 1, n), 1, 0)

\* strconv.Atoi of the string s, a sequence of characters: an optional sign
\* and at least one decimal digit
Atoi(s) ==
    IF s = <<>> THEN [i |-> 0, err |-> ErrSyntax]
    ELSE IF s[1] \in {"+", "-"}
    THEN IF Len(s) = 1 THEN [i |-> 0, err |-> ErrSyntax]
         ELSE LET r == AtoiDigits(s, 2, 0)
              IN  IF s[1] = "-" THEN [i |-> -r.i, err |-> r.err] ELSE r
    ELSE AtoiDigits(s, 1, 0)

\* the strings the attribute is answered with
AttributeStrings ==
    {<<"4", "2">>, <<"0">>, <<"-", "7">>, <<"+", "5">>, <<"0", "0", "7">>,
     <<>>, <<"a">>, <<"1", "x">>, <<"-">>, <<"4", " ">>, <<"1", ".", "5">>}

\* what c.sqs.GetQueueAttributes answers: an error, or the attributes, in which
\* the approximate number of messages is absent, a nil pointer or a string
NoString == [isNil |-> TRUE]
QueueResponses ==
    {[err |-> ErrDelegate, Attributes |-> EmptyMap],
     [err |-> NoError, Attributes |-> EmptyMap],
     [err |-> NoError, Attributes |-> ("ApproximateNumberOfMessages" :> NoString)]}
        \cup {[err |-> NoError,
               Attributes |-> ("ApproximateNumberOfMessages" :>
                                  [isNil |-> FALSE, s |-> a])] : a \in AttributeStrings}

\* aws.StringValue
StringValue(v) == IF v.isNil THEN <<>> ELSE v.s

\* the Nakadi collectors that can be constructed
NakadiCollectors ==
    {NewNakadiStatsCollector(config, Interval).collector :
        config \in {x \in PluginConfigs : NewNakadiStatsCollector(x, Interval).err.isNil}}

NakadiGetMetrics(c, resp) ==
    IF ~resp.err.isNil THEN [values |-> <<>>, err |-> resp.err]
    ELSE IF Has(resp.Attributes, "ApproximateNumberOfMessages")
    THEN LET a == Atoi(StringValue(resp.Attributes["ApproximateNumberOfMessages"]))
         IN  IF ~a.err.isNil THEN [values |-> <<>>, err |-> a.err]
             ELSE [values |-> <<[Type |-> c.metricType,
                                 External |-> ExternalValue(c.metricName, c.labels, a.i)]>>,
                   err |-> NoError]
    ELSE [values |-> <<>>, err |-> Errorf("failed to get queue length for '%s'", <<>>)]

CallNakadiGetMetrics(c, resp) ==
    /\ op' = [name |-> "NakadiStatsCollector.GetMetrics", c |-> c, resp |-> resp]
    /\ ret' = NakadiGetMetrics(c, resp)
    /\ UNCHANGED <<storeVars, now, panicked, concVars>>

CollectorCalls == {"getCollector", "SkipperCollector.GetMetrics",
                   "MaxCollector.GetMetrics", "NewCollector", "NewZMONCollector",
                   "NewNakadiStatsCollector", "ZMONCollector.GetMetrics",
                   "NakadiStatsCollector.GetMetrics"}

\* the caller takes what a call of a collector returned
TakeResult ==
    /\ op.name \in CollectorCalls
    /\ op' = [name |-> "Return"]
    /\ ret' = None
    /\ UNCHANGED <<storeVars, now, panicked, concVars>>

CollectorCall ==
    \/ \E c \in SkipperCollectors, ingress \in Ingresses, failAt \in 0..MaxRules :
          CallGetCollector(c, ingress, failAt)
    \/ \E c \in SkipperCollectors, ingress \in SomeIngresses, failAt \in 0..1,
          delegate \in DelegateResults, scale \in ScaleTargets :
          CallSkipperGetMetrics(c, ingress, failAt, delegate, scale)
    \/ \E results \in MaxDelegateResults : CallMaxGetMetrics(results)
    \/ \E plugin \in Plugins, config \in PluginConfigs : CallNewCollector(plugin, config)
    \/ \E config \in PluginConfigs : CallNewZMONCollector(config)
    \/ \E config \in PluginConfigs : CallNewNakadiStatsCollector(config)
    \/ \E c \in ZMONCollectors, result \in CheckResults : CallZMONGetMetrics(c, result)
    \/ \E c \in NakadiCollectors, resp \in QueueResponses : CallNakadiGetMetrics(c, resp)

\* the collectors with their caller: a result is taken before the next call
NextCollector ==
    \/ /\ op.name \notin CollectorCalls
       /\ CollectorCall
    \/ TakeResult

SpecCollector == Init /\ [][NextCollector]_vars

\* the sub-collector getCollector creates for the rule i of the ingress
SubCollector(c, ingress, i) ==
    [kind |-> "delegate", hpa |-> c.hpa, interval |-> c.interval,
     config |-> [c.config EXCEPT
                   !.PerReplica = FALSE,
                   !.Config = ("query" :>
                      (<<rpsQueryHead>>
                         \o [j \in 1..Len(ingress.Rules[i]) |->
                               IF ingress.Rules[i][j] = "." THEN "_"
                               ELSE ingress.Rules[i][j]]
                         \o <<rpsQueryTail>>))]]

\* C14: for an ingress with N rules, fetched and with every sub-collector
\* created, getCollector fails with the 'no hosts defined' error when N = 0,
\* returns the single sub-collector itself when N = 1, and when N > 1 returns
\* the maximum-of combinator over all N sub-collectors in rule order.
C14_GetCollectorByRules ==
    (op.name = "getCollector" /\ op.ingress.err.isNil
        /\ op.failAt \notin 1..Len(op.ingress.Rules)) =>
        LET N == Len(op.ingress.Rules)
        IN  /\ N = 0 =>
                 /\ ret.collector = NoCollector
                 /\ ~ret.err.isNil
                 /\ ret.err.format =
                       "no hosts defined on ingress %s/%s, unable to create collector"
            /\ N = 1 =>
                 /\ ret.err = NoError
                 /\ ret.collector = SubCollector(op.c, op.ingress, 1)
            /\ N > 1 =>
                 /\ ret.err = NoError
                 /\ ret.collector.kind = "max"
                 /\ ret.collector.interval = op.c.interval
                 /\ ret.collector.collectors =
                       [i \in 1..N |-> SubCollector(op.c, op.ingress, i)]

\* getCollector has wrapped the sub-collectors of three rules, of two different
\* hosts, of a collector configured with per-replica averaging
C14_Witness ==
    /\ op.name = "getCollector"
    /\ op.c.config.PerReplica
    /\ ret.err = NoError
    /\ ret.collector.kind = "max"
    /\ Len(ret.collector.collectors) = 3
    /\ ret.collector.collectors[1] # ret.collector.collectors[2]
    /\ \A i \in 1..3 : ~ret.collector.collectors[i].config.PerReplica

\* C15: SkipperCollector.GetMetrics returns an error and no metric value, and
\* divides by nothing, whenever the ready replicas of the scale target are
\* fewer than one; a scale target that is neither a Deployment nor a
\* StatefulSet counts as zero replicas, so the call always fails for it.  No
\* call divides by zero.
C15_NoReplicasNoValue ==
    op.name = "SkipperCollector.GetMetrics" =>
        LET kind == op.c.hpa.ScaleTargetRef.Kind
            counted == kind \in {"Deployment", "StatefulSet"}
            fewer == \/ ~counted
                     \/ op.scale.err.isNil /\ op.scale.ReadyReplicas < 1
        IN  /\ fewer => /\ ~ret.err.isNil
                        /\ ret.values = <<>>
                        /\ ret.division.isNone
            /\ ~ret.division.isNone => ret.division.divisor >= 1

\* GetMetrics has refused to average over zero ready replicas of a Deployment,
\* the delegate having returned one value
C15_Witness ==
    /\ op.name = "SkipperCollector.GetMetrics"
    /\ op.c.hpa.ScaleTargetRef.Kind = "Deployment"
    /\ op.scale.err.isNil /\ op.scale.ReadyReplicas = 0
    /\ Len(op.delegate.values) = 1
    /\ ~ret.err.isNil
    /\ ret.err.format = "unable to get average value for %d replicas"
    /\ ret.err.d = 0
    /\ ret.values = <<>>

\* v divided by r, truncated toward zero
TruncatedQuotient(v, r) == Sign(v) * (Abs(v) \div r)

\* a call of GetMetrics whose delegate returned one value and whose scale
\* target has at least one ready replica
Averaging ==
    /\ op.name = "SkipperCollector.GetMetrics"
    /\ getCollector(op.c, op.ingress, op.failAt).err.isNil
    /\ op.delegate.err.isNil
    /\ Len(op.delegate.values) = 1
    /\ op.c.hpa.ScaleTargetRef.Kind \in {"Deployment", "StatefulSet"}
    /\ op.scale.err.isNil
    /\ op.scale.ReadyReplicas >= 1

\* the call returned the delegate's value with the quantity replaced by q
ReturnsQuantity(q) ==
    /\ ret.err = NoError
    /\ Len(ret.values) = 1
    /\ ret.values[1].Custom.Value = q
    /\ ret.values[1].Type = op.delegate.values[1].Type
    /\ ret.values[1].Labels = op.delegate.values[1].Labels
    /\ ret.values[1].Custom.MetricName = op.delegate.values[1].Custom.MetricName
    /\ ret.values[1].Custom.DescribedObject =
          op.delegate.values[1].Custom.DescribedObject

\* C16: when the delegate returns one value with the milli quantity v and the
\* scale target has r >= 1 ready replicas, GetMetrics returns exactly one value
\* whose milli quantity is v divided by r truncated toward zero, every other
\* field unchanged (as claimed: for every v).
C16_AsClaimed ==
    Averaging =>
        ReturnsQuantity(TruncatedQuotient(op.delegate.values[1].Custom.Value,
                                          op.scale.ReadyReplicas))

\* C16, what holds: the same for the milli quantities v that a float64
\* represents exactly, |v| <= 2^MantissaBits; for larger ones the quotient is
\* that of the rounded v, rounded again.
C16_ExactWithinMantissa ==
    Averaging =>
        LET v == op.delegate.values[1].Custom.Value
            r == op.scale.ReadyReplicas
        IN  IF Abs(v) <= Pow2(MantissaBits)
            THEN ReturnsQuantity(TruncatedQuotient(v, r))
            ELSE ReturnsQuantity(Int64OfQuotient(Float64(v), r))

\* 900 milli over 3 replicas have been averaged to 300
C16_Witness ==
    /\ Averaging
    /\ op.delegate.values[1].Custom.Value = 900
    /\ op.scale.ReadyReplicas = 3
    /\ ReturnsQuantity(300)

\* C17: the maximum-of combinator invokes its delegates in order and returns
\* the single value with the largest quantity, the first one of equal ones
\* (3, 7, 5 give 7; 7, 7, 3 give the first 7); when a delegate returns an error
\* the combinator returns that error and no value, without invoking the
\* delegates after it.
C17_MaxOfDelegates ==
    op.name = "MaxCollector.GetMetrics" =>
        LET n == Len(op.results)
            failing == {i \in 1..n : ~op.results[i].err.isNil}
            valued == {i \in 1..n : Len(op.results[i].values) = 1}
            quantity(i) == op.results[i].values[1].Custom.Value
        IN  /\ failing # {} =>
                 LET i == CHOOSE x \in failing : \A y \in failing : x <= y
                 IN  /\ ret.err = op.results[i].err
                     /\ ret.values = <<>>
                     /\ ret.invoked = [j \in 1..i |-> j]
            /\ (failing = {} /\ valued # {}) =>
                 LET i == CHOOSE x \in valued :
                             /\ \A y \in valued : quantity(y) <= quantity(x)
                             /\ \A y \in valued : quantity(y) = quantity(x) => x <= y
                 IN  /\ ret.err = NoError
                     /\ ret.values = op.results[i].values
                     /\ ret.invoked = [j \in 1..n |-> j]

\* of the delegates' values 7, 7, 3 the combinator has returned the first 7
C17_Witness ==
    /\ op.name = "MaxCollector.GetMetrics"
    /\ Len(op.results) = 3
    /\ \A i \in 1..3 : Len(op.results[i].values) = 1
    /\ op.results[1].values[1].Custom.Value = 7
    /\ op.results[2].values[1].Custom.Value = 7
    /\ op.results[3].values[1].Custom.Value = 3
    /\ ret.err = NoError
    /\ ret.values = op.results[1].values
    /\ ret.values # op.results[2].values

\* the metric names a plugin supports
SupportedBy(plugin) ==
    CASE plugin = "ZMON" -> {"zmon-check"}
      [] plugin = "Nakadi" -> {"nakadi-unconsumed-events", "nakadi-consumer-lag-seconds"}
      [] plugin = "Skipper" -> {"requests-per-second"}

\* C18: NewCollector of the ZMON, the Nakadi and the Skipper plugin returns no
\* collector and an error that names the metric for every metric name other
\* than the ones the plugin supports.
C18_UnsupportedRejected ==
    (op.name = "NewCollector" /\ op.config.Name \notin SupportedBy(op.plugin)) =>
        /\ ret.collector = NoCollector
        /\ ~ret.err.isNil
        /\ ret.err.format = "metric '%s' not supported"
        /\ ret.err.args = <<op.config.Name>>

\* the ZMON plugin has rejected a metric name the Nakadi plugin supports, for a
\* configuration that holds the labels a ZMON collector needs
C18_Witness ==
    /\ op.name = "NewCollector"
    /\ op.plugin = "ZMON"
    /\ op.config.Name = "nakadi-unconsumed-events"
    /\ {"check-id", "query"} \subseteq DOMAIN op.config.Labels
    /\ ret.collector = NoCollector
    /\ ret.err.args = <<"nakadi-unconsumed-events">>

\* the labels a construction requires, and where the collector keeps each
RequiredLabels(constructor) ==
    CASE constructor = "ZMON" -> {"check-id", "query"}
      [] constructor = "Nakadi" -> {"subscription-id", "event-type"}

\* the constructor a call runs: none for a metric name the plugin rejects
ConstructorOf ==
    CASE op.name = "NewZMONCollector" -> "ZMON"
      [] op.name = "NewNakadiStatsCollector" -> "Nakadi"
      [] op.name = "NewCollector" /\ op.plugin \in {"ZMON", "Nakadi"}
            /\ op.config.Name \in SupportedBy(op.plugin) -> op.plugin
      [] OTHER -> "none"

\* C19: the construction of a ZMON or Nakadi collector returns an error and no
\* collector whenever a required label (ZMON: check-id, query; Nakadi:
\* subscription-id, event-type) is absent from config.Labels; when all of them
\* are present it succeeds and the collector carries exactly their values.
C19_RequiredLabels ==
    ConstructorOf # "none" =>
        LET labels == op.config.Labels
        IN  IF RequiredLabels(ConstructorOf) \subseteq DOMAIN labels
            THEN /\ ret.err = NoError
                 /\ ret.collector # NoCollector
                 /\ ConstructorOf = "ZMON" =>
                       /\ ret.collector.checkID = labels["check-id"]
                       /\ ret.collector.query = labels["query"]
                 /\ ConstructorOf = "Nakadi" =>
                       /\ ret.collector.subscriptionID = labels["subscription-id"]
                       /\ ret.collector.eventType = labels["event-type"]
                 /\ ret.collector.labels = labels
            ELSE /\ ret.collector = NoCollector
                 /\ ~ret.err.isNil

\* the ZMON plugin has refused to construct a collector for zmon-check from
\* labels that hold the check id and no query
C19_Witness ==
    /\ op.name = "NewCollector"
    /\ op.plugin = "ZMON"
    /\ op.config.Name = "zmon-check"
    /\ "check-id" \in DOMAIN op.config.Labels
    /\ "query" \notin DOMAIN op.config.Labels
    /\ ret.collector = NoCollector
    /\ ret.err.format = "ZMON query not specified on metric"

\* C20: each GetMetrics call of the ZMON collector sends one query for its
\* check id to the check-results backend and returns exactly one external
\* metric value with the configured metric name and labels and the result of
\* that query as its value (as claimed).
C20_AsClaimed ==
    op.name = "ZMONCollector.GetMetrics" =>
        /\ ret.queries = <<op.c.checkID>>
        /\ ret.err = NoError
        /\ Len(ret.values) = 1
        /\ ret.values[1].External.MetricName = op.c.metricName
        /\ ret.values[1].External.MetricLabels = op.c.labels
        /\ ret.values[1].External.Value = op.result

\* C20, what holds: each GetMetrics call of the ZMON collector returns exactly
\* one external metric value with the configured metric name, labels and type,
\* whose value is 0 whatever the backend holds, and sends no query.
C20_ConstantZero ==
    op.name = "ZMONCollector.GetMetrics" =>
        /\ ret.queries = <<>>
        /\ ret.err = NoError
        /\ Len(ret.values) = 1
        /\ ret.values[1].Type = op.c.metricType
        /\ ret.values[1].External.MetricName = op.c.metricName
        /\ ret.values[1].External.MetricLabels = op.c.labels
        /\ ret.values[1].External.Value = 0

\* GetMetrics has returned the value 0 for a check whose result is 42
C20_Witness ==
    /\ op.name = "ZMONCollector.GetMetrics"
    /\ op.result = 42
    /\ Len(ret.values) = 1
    /\ ret.values[1].External.Value = 0
    /\ ret.queries = <<>>

\* whether the string s is a decimal integer: an optional sign, then digits only
IsDecimal(s) ==
    LET digits == IF s # <<>> /\ s[1] \in {"+", "-"} THEN Tail(s) ELSE s
    IN  /\ digits # <<>>
        /\ \A j \in 1..Len(digits) :
              digits[j] \in {"0", "1", "2", "3", "4", "5", "6", "7", "8", "9"}

\* the integer the decimal string s denotes
RECURSIVE DecimalValue(_)
DecimalValue(s) ==
    IF s = <<>> THEN 0
    ELSE IF s[1] = "-" THEN -DecimalValue(Tail(s))
    ELSE IF s[1] = "+" THEN DecimalValue(Tail(s))
    ELSE 10 * DecimalValue(SubSeq(s, 1, Len(s) - 1))
            + (CHOOSE d \in 0..9 :
                 <<"0", "1", "2", "3", "4", "5", "6", "7", "8", "9">>[d + 1] = s[Len(s)])

\* C21: GetMetrics of the queue-depth collector returns an error and no value
\* when the backend call fails, when the approximate-message-count attribute is
\* absent from the response, or when it is not parseable as an integer;
\* otherwise it returns exactly one external metric value whose quantity is
\* that integer.
C21_QueueDepth ==
    op.name = "NakadiStatsCollector.GetMetrics" =>
        LET present == "ApproximateNumberOfMessages" \in DOMAIN op.resp.Attributes
            text == IF op.resp.Attributes["ApproximateNumberOfMessages"].isNil
                    THEN <<>>
                    ELSE op.resp.Attributes["ApproximateNumberOfMessages"].s
        IN  IF ~op.resp.err.isNil \/ ~present \/ ~IsDecimal(text)
            THEN ~ret.err.isNil /\ ret.values = <<>>
            ELSE /\ ret.err = NoError
                 /\ Len(ret.values) = 1
                 /\ ret.values[1].External.Value = DecimalValue(text)
                 /\ ret.values[1].External.MetricName = op.c.metricName
                 /\ ret.values[1].External.MetricLabels = op.c.labels

\* GetMetrics has failed for an attribute that starts with a digit and is not
\* a number
C21_Witness ==
    /\ op.name = "NakadiStatsCollector.GetMetrics"
    /\ op.resp.err.isNil
    /\ "ApproximateNumberOfMessages" \in DOMAIN op.resp.Attributes
    /\ op.resp.Attributes["ApproximateNumberOfMessages"] = [isNil |-> FALSE, s |-> <<"1", "x">>]
    /\ ~ret.err.isNil
    /\ ret.values = <<>>

----------------------------------------------------------------------------
(* The identity of stored entries: objects of several kinds under one
   namespace and name, and label maps whose keys and values hold the
   characters hashLabelMap formats with. *)

\* one object name in one namespace, under two mapped and two unmapped kinds
KindInputs ==
    {[Custom |-> CustomValue(k, "ns1", "a", "requests-per-second", v),
      Labels |-> EmptyMap] :
        k \in {"Pod", "Ingress", "Deployment", "StatefulSet"}, v \in Quantities}

\* the label maps a=1 / a=1,b=2 / a="1,b=2" / "a=1,b"=2
SeparatorLabels ==
    {KeyA :> Val1,
     (KeyA :> Val1) @@ (KeyB :> Val2),
     KeyA :> (Val1 \o <<44>> \o KeyB \o <<61>> \o Val2),
     (KeyA \o <<61>> \o Val1 \o <<44>> \o KeyB) :> Val2}

SeparatorInputs ==
    {ExternalValue("queue-length", l, v) : l \in SeparatorLabels, v \in Quantities}

\* Insert of a custom metric; op also names the value the entry held before
InsertCustomOver(in) ==
    LET r == insertCustomMetric(customMetricsStore, in.Custom, in.Labels, now)
        p == PathOf(in.Custom)
    IN  /\ \/ CustomHas(customMetricsStore, p)
           \/ Entries < MaxEntries
        /\ customMetricsStore' = r.store
        /\ panicked' = (panicked \/ r.panic)
        /\ op' = [name |-> "InsertCustom", value |-> in.Custom, labels |-> in.Labels,
                  branch |-> r.branch, panic |-> r.panic,
                  replaced |-> IF CustomHas(customMetricsStore, p)
                               THEN CustomAt(customMetricsStore, p).Value ELSE Nil]
        /\ ret' = None
        /\ UNCHANGED <<externalMetricsStore, now, concVars>>

\* Insert of an external metric; op also names the value the entry held before
InsertExternalOver(metric, keys) ==
    LET labelsKey == hashLabelMap(metric.MetricLabels, keys)
        p == <<metric.MetricName, labelsKey>>
    IN  /\ \/ p \in ExternalPaths(externalMetricsStore)
           \/ Entries < MaxEntries
        /\ externalMetricsStore' = insertExternalMetric(externalMetricsStore, metric, keys, now)
        /\ op' = [name |-> "InsertExternal", value |-> metric, keys |-> keys,
                  labelsKey |-> labelsKey,
                  replaced |-> IF p \in ExternalPaths(externalMetricsStore)
                               THEN ExternalAt(externalMetricsStore, p).Value ELSE Nil]
        /\ ret' = None
        /\ UNCHANGED <<customMetricsStore, now, panicked, concVars>>

NextIdentity ==
    \/ /\ op.name \notin ReadNames
       /\ \/ \E in \in KindInputs : InsertCustomOver(in)
          \/ \E metric \in SeparatorInputs :
                \E keys \in RangeOrders(metric.MetricLabels) :
                   InsertExternalOver(metric, keys)
          \/ \E gr \in GroupResources, ns \in Namespaces :
                ReadByName("requests-per-second", gr, ns, "a")
          \/ \E sel \in Selectors : ReadExternal("ns1", "queue-length", sel)
    \/ Return

SpecIdentity == Init /\ [][NextIdentity]_vars

\* C22: the kind of the described object is mapped to a group resource by a
\* fixed table (Pod: resource pods, empty group; Ingress: resource ingresses,
\* group extensions; every other kind: the zero group resource).  A metric of
\* an unmapped kind is stored under the zero group resource and a lookup
\* returns it only when asked with the zero group resource; a metric of another
\* unmapped kind with the same metric name, namespace and object name is written
\* to the same entry.
C22_KindTable ==
    [][LET table(kind) ==
               IF kind = "Pod" THEN [Group |-> "", Resource |-> "pods"]
               ELSE IF kind = "Ingress"
               THEN [Group |-> "extensions", Resource |-> "ingresses"]
               ELSE [Group |-> "", Resource |-> ""]
       IN  /\ op'.name = "InsertCustom" =>
                LET o == op'.value.DescribedObject
                    gr == table(o.Kind)
                    m == op'.value.MetricName
                IN  /\ Has(customMetricsStore', m)
                    /\ Has(customMetricsStore'[m], gr)
                    /\ Has(customMetricsStore'[m][gr], o.Namespace)
                    /\ Has(customMetricsStore'[m][gr][o.Namespace], o.Name)
                    /\ customMetricsStore'[m][gr][o.Namespace][o.Name].Value = op'.value
                    /\ CustomPaths(customMetricsStore') =
                          CustomPaths(customMetricsStore)
                             \cup {<<m, gr, o.Namespace, o.Name>>}
                    /\ (\E q \in CustomPaths(customMetricsStore) :
                           LET w == CustomAt(customMetricsStore, q).Value
                           IN  /\ w.MetricName = m
                               /\ w.DescribedObject.Kind \notin {"Pod", "Ingress"}
                               /\ o.Kind \notin {"Pod", "Ingress"}
                               /\ w.DescribedObject.Namespace = o.Namespace
                               /\ w.DescribedObject.Name = o.Name)
                          => /\ op'.replaced # Nil
                             /\ CustomPaths(customMetricsStore')
                                   = CustomPaths(customMetricsStore)
           /\ (op'.name = "GetMetricsByName" /\ ~ret'.isNil) =>
                op'.groupResource = table(ret'.Value.DescribedObject.Kind)]_vars

\* the Insert of a metric of a StatefulSet has replaced the value stored for
\* the Deployment of the same namespace and name
C22_Witness ==
    /\ op.name = "InsertCustom"
    /\ op.value.DescribedObject.Kind = "StatefulSet"
    /\ op.replaced # Nil
    /\ op.replaced.DescribedObject.Kind = "Deployment"
    /\ op.replaced.DescribedObject.Namespace = op.value.DescribedObject.Namespace
    /\ op.replaced.DescribedObject.Name = op.value.DescribedObject.Name
    /\ Cardinality(CustomPaths(customMetricsStore)) = 1

\* the sub-collectors a getCollector call has returned, in order
Built ==
    IF ret.collector = NoCollector THEN <<>>
    ELSE IF ret.collector.kind = "max" THEN ret.collector.collectors
    ELSE <<ret.collector>>

\* C23: for an ingress with the hosts h1..hN (fetched, every sub-collector
\* created) getCollector builds exactly N sub-collectors, the i-th from the
\* query for hi with every '.' replaced by '_', each with per-replica averaging
\* disabled whatever the collector's own configuration says; the call leaves
\* the collector and its configuration as they were, so the next call with the
\* same answers builds the same sub-collectors.
C23_SubCollectors ==
    op.name = "getCollector" =>
        /\ op.after = op.c
        /\ getCollector(op.after, op.ingress, op.failAt) = ret
        /\ (op.ingress.err.isNil /\ op.failAt \notin 1..Len(op.ingress.Rules)) =>
              /\ Len(Built) = Len(op.ingress.Rules)
              /\ \A i \in 1..Len(Built) :
                    LET host == op.ingress.Rules[i]
                        query == Built[i].config.Config["query"]
                    IN  /\ Len(query) = Len(host) + 2
                        /\ query[1] = rpsQueryHead
                        /\ query[Len(query)] = rpsQueryTail
                        /\ \A j \in 1..Len(host) :
                              query[j + 1] = (IF host[j] = "." THEN "_" ELSE host[j])
                        /\ ~Built[i].config.PerReplica
                        /\ Built[i].config.Name = op.c.config.Name
                        /\ Built[i].config.Labels = op.c.config.Labels

\* getCollector has built the sub-collectors of the hosts d and a.b.c for a
\* collector configured with per-replica averaging, which it still is
C23_Witness ==
    /\ op.name = "getCollector"
    /\ op.c.config.PerReplica
    /\ op.after.config.PerReplica
    /\ op.after.config.Config = EmptyMap
    /\ op.ingress.err.isNil
    /\ op.ingress.Rules = <<<<"d">>, <<"a", ".", "b", ".", "c">>>>
    /\ Len(Built) = 2
    /\ Built[2].config.Config["query"]
          = <<rpsQueryHead, "a", "_", "b", "_", "c", rpsQueryTail>>

\* how often the call named n occurs in the sequence of calls
Times(seq, n) == Cardinality({i \in 1..Len(seq) : seq[i] = n})

\* C24: GetMetrics of the skipper collector returns an error and no value
\* whenever the ingress lookup fails, a sub-collector cannot be constructed,
\* the delegate's GetMetrics fails, the delegate returns a number of values
\* other than one, or the replica lookup fails; the replicas are looked up only
\* after the delegate has returned exactly one value, and no failed call is
\* made again within the call.
C24_FailuresPropagate ==
    op.name = "SkipperCollector.GetMetrics" =>
        LET N == Len(op.ingress.Rules)
            ingressFails == ~op.ingress.err.isNil
            pluginFails == ~ingressFails /\ op.failAt \in 1..N
            delegateFails == ~op.delegate.err.isNil
            miscounted == Len(op.delegate.values) # 1
            replicasFail == /\ op.c.hpa.ScaleTargetRef.Kind \in {"Deployment", "StatefulSet"}
                            /\ ~op.scale.err.isNil
        IN  /\ (ingressFails \/ pluginFails \/ delegateFails \/ miscounted \/ replicasFail)
                  => (~ret.err.isNil /\ ret.values = <<>>)
            /\ ingressFails => ret.err = op.ingress.err
            /\ (~ingressFails /\ ~pluginFails /\ N > 0 /\ delegateFails)
                  => ret.err = op.delegate.err
            /\ Times(op.calls, "ScaleTarget.Get") > 0 =>
                  /\ ~ingressFails /\ ~pluginFails /\ ~delegateFails /\ ~miscounted
                  /\ op.calls[Len(op.calls)] = "ScaleTarget.Get"
                  /\ op.calls[Len(op.calls) - 1] = "collector.GetMetrics"
            /\ Times(op.calls, "Ingresses.Get") = 1
            /\ Times(op.calls, "plugin.NewCollector") <= N
            /\ Times(op.calls, "collector.GetMetrics") <= 1
            /\ Times(op.calls, "ScaleTarget.Get") <= 1

\* GetMetrics has failed on two values of the delegate, for a Deployment, and
\* has not looked up the replicas
C24_Witness ==
    /\ op.name = "SkipperCollector.GetMetrics"
    /\ op.c.hpa.ScaleTargetRef.Kind = "Deployment"
    /\ op.delegate.err.isNil
    /\ Len(op.delegate.values) = 2
    /\ op.calls = <<"Ingresses.Get", "plugin.NewCollector", "collector.GetMetrics">>
    /\ ~ret.err.isNil
    /\ ret.err.format = "expected to only get one metric value, got %d"
    /\ ret.values = <<>>

----------------------------------------------------------------------------
(* Claims about the store's containers and expiry *)

\* the case of insertCustomMetric a value falls in, read from the store
\* before the Insert
CaseOf(store, value) ==
    LET p == PathOf(value)
    IN  IF ~Has(store, p[1]) THEN "newMetric"
        ELSE IF ~Has(store[p[1]], p[2]) THEN "newGroup"
        ELSE IF ~Has(store[p[1]][p[2]], p[3]) THEN "newNamespace"
        ELSE IF ~Has(store[p[1]][p[2]][p[3]], p[4]) THEN "newName"
        ELSE "overwrite"

\* the step leaves the inserted metric stored at its path
StoredAtPath ==
    /\ CustomHas(customMetricsStore', PathOf(op'.value))
    /\ CustomAt(customMetricsStore', PathOf(op'.value)) =
          [Value |-> op'.value, Labels |-> op'.labels, TTL |-> now' + TTL]

\* C25 as claimed: Insert of a custom metric completes normally (no runtime
\* abort) and leaves the metric stored at its path, in each of the four cases
\* (metric name new; group-resource new; namespace new; namespace present).
C25_AsClaimed ==
    [][op'.name = "InsertCustom" => (~op'.panic /\ StoredAtPath)]_vars

\* C25, what holds: every Insert of a custom metric leaves the metric stored
\* at its path; it completes normally when the metric name is new or the
\* namespace is present, and aborts with a nil-map assignment, after storing,
\* when the group-resource or the namespace is new under a present metric name.
C25_StoredAbortsOnNewContainer ==
    [][op'.name = "InsertCustom" =>
          /\ StoredAtPath
          /\ op'.branch = CaseOf(customMetricsStore, op'.value)
          /\ op'.panic = (op'.branch \in {"newGroup", "newNamespace"})]_vars

\* an Insert under a present metric name with a new group-resource has
\* aborted, the metric is stored
C25_Witness ==
    /\ op.name = "InsertCustom"
    /\ op.branch = "newGroup"
    /\ op.panic
    /\ op.value.DescribedObject.Kind = "Ingress"
    /\ CustomHas(customMetricsStore, PathOf(op.value))
    /\ Cardinality(DOMAIN customMetricsStore[op.value.MetricName]) = 2

\* C26: RemoveExpired removes only expired entries: every custom or external
\* entry whose expiresAt is not before the current time (one whose expiresAt
\* equals it included) is stored afterwards with the same value, labels and
\* expiresAt, and so is every container that holds such an entry.
C26_KeepsUnexpired ==
    [][op'.name = "RemoveExpired" =>
          /\ \A p \in CustomPaths(customMetricsStore) :
                CustomAt(customMetricsStore, p).TTL >= now =>
                   /\ CustomHas(customMetricsStore', p)
                   /\ CustomAt(customMetricsStore', p) = CustomAt(customMetricsStore, p)
          /\ \A q \in ExternalPaths(externalMetricsStore) :
                ExternalAt(externalMetricsStore, q).TTL >= now =>
                   /\ q \in ExternalPaths(externalMetricsStore')
                   /\ ExternalAt(externalMetricsStore', q) =
                         ExternalAt(externalMetricsStore, q)
          /\ \A p \in op'.removed :
                IF p \in CustomPaths(customMetricsStore)
                THEN CustomAt(customMetricsStore, p).TTL < now
                ELSE ExternalAt(externalMetricsStore, p).TTL < now]_vars

\* RemoveExpired has removed an expired pod's metric and kept, in the same
\* namespace, a metric that expires exactly now
C26_Witness ==
    /\ op.name = "RemoveExpired"
    /\ now = 2 * TTL
    /\ ~panicked
    /\ op.removed = {<<"requests-per-second", GroupResourceOf("Pod"), "ns1", "a">>}
    /\ CustomPaths(customMetricsStore) =
          {<<"requests-per-second", GroupResourceOf("Pod"), "ns1", "b">>}
    /\ customMetricsStore["requests-per-second"][GroupResourceOf("Pod")]["ns1"]["b"].TTL = now

\* C27: in every state reachable by Insert and RemoveExpired from the empty
\* store no container is empty: every metric-name map holds a group-resource,
\* every group-resource map a namespace, every namespace map an object entry,
\* and every external metric name an entry.
C27_NoEmptyContainer ==
    NoEmptyContainer(customMetricsStore, externalMetricsStore)

\* RemoveExpired has emptied the group-resource of the pods and deleted it,
\* the metric name still holds the group-resource of the ingresses
C27_Witness ==
    /\ op.name = "RemoveExpired"
    /\ <<"requests-per-second", GroupResourceOf("Pod"), "ns1", "a">> \in op.removed
    /\ Has(customMetricsStore, "requests-per-second")
    /\ DOMAIN customMetricsStore["requests-per-second"] = {GroupResourceOf("Ingress")}

\* the result of the read holds every stored entry the query selects, whatever
\* its expiresAt
ReturnsStored ==
    /\ op.name = "GetMetricsByName" =>
          \A p \in CustomPaths(customMetricsStore) :
             (p[1] = op.metricName /\ p[2] = op.groupResource
                 /\ p[3] = op.namespace /\ p[3] # "" /\ p[4] = op.objectName)
                => ret = Found(CustomAt(customMetricsStore, p).Value)
    /\ op.name = "GetMetricsBySelector" =>
          \A p \in CustomPaths(customMetricsStore) :
             (p[1] = op.metricName /\ p[2] = op.groupResource
                 /\ op.namespace \in {"", p[3]}
                 /\ Matches(op.selector, CustomAt(customMetricsStore, p).Labels))
                => (~ret.isNil /\ CustomAt(customMetricsStore, p).Value \in ret.Items)
    /\ op.name = "GetExternalMetric" =>
          \A q \in ExternalPaths(externalMetricsStore) :
             (q[1] = op.metricName
                 /\ Matches(op.selector,
                            ExternalAt(externalMetricsStore, q).Value.MetricLabels))
                => ExternalAt(externalMetricsStore, q).Value \in ret.Items
    /\ op.name = "ListAllExternalMetrics" =>
          \A q \in ExternalPaths(externalMetricsStore) :
             [Metric |-> q[1],
              Labels |-> ExternalAt(externalMetricsStore, q).Value.MetricLabels] \in ret

\* C28: reads do not filter by expiry: GetMetricsByName, GetMetricsBySelector,
\* GetExternalMetric and ListAllExternalMetrics return an entry for as long as
\* it is stored (until RemoveExpired removes it or an Insert overwrites it),
\* also when its expiresAt has passed; and no read changes the store.
C28_ReadsIgnoreExpiry ==
    [][op'.name \in ReadNames => (UNCHANGED storeVars /\ ReturnsStored')]_vars

\* ListAllExternalMetrics has listed an external metric whose expiresAt has passed
C28_Witness ==
    /\ op.name = "ListAllExternalMetrics"
    /\ \E q \in ExternalPaths(externalMetricsStore) :
          /\ ExternalAt(externalMetricsStore, q).TTL < now
          /\ [Metric |-> q[1],
              Labels |-> ExternalAt(externalMetricsStore, q).Value.MetricLabels] \in ret

\* the canonical strings of a label map, over the orders the map is ranged in
CanonicalStrings(l) == {hashLabelMap(l, keys) : keys \in RangeOrders(l)}

\* no key and no value of the label map contains ',' or '='
SeparatorFree(l) ==
    \A k \in DOMAIN l :
       /\ \A i \in 1..Len(k) : k[i] \notin {44, 61}
       /\ \A i \in 1..Len(l[k]) : l[k][i] \notin {44, 61}

\* C29 as claimed: the canonical label string is injective on label maps,
\* for arbitrary keys and values, ',' and '=' included: an Insert of an
\* external metric overwrites no entry of the same metric name stored with
\* another label map.
C29_AsClaimed ==
    op.name = "InsertExternal" =>
       (op.replaced # Nil => op.replaced.MetricLabels = op.value.MetricLabels)

\* C29, what holds: the canonical string does not depend on the order the map
\* is ranged in, and it tells apart label maps whose keys and values contain
\* neither ',' nor '=': an Insert with such a label map overwrites no entry
\* stored with another such label map.
C29_InjectiveWithoutSeparators ==
    op.name = "InsertExternal" =>
       /\ CanonicalStrings(op.value.MetricLabels) = {op.labelsKey}
       /\ (op.replaced # Nil /\ SeparatorFree(op.value.MetricLabels)
              /\ SeparatorFree(op.replaced.MetricLabels))
             => op.replaced.MetricLabels = op.value.MetricLabels
       /\ \A l \in SeparatorLabels :
             (SeparatorFree(l) /\ SeparatorFree(op.value.MetricLabels)
                 /\ l # op.value.MetricLabels)
                => op.labelsKey \notin CanonicalStrings(l)

\* the label maps a=1 and a=1,b=2 are stored as two entries of one metric name
C29_Witness ==
    /\ op.name = "InsertExternal"
    /\ op.value.MetricLabels = (KeyA :> Val1) @@ (KeyB :> Val2)
    /\ op.replaced = Nil
    /\ Cardinality(ExternalPaths(externalMetricsStore)) = 2
    /\ \E q \in ExternalPaths(externalMetricsStore) :
          ExternalAt(externalMetricsStore, q).Value.MetricLabels = (KeyA :> Val1)

====
